---- MODULE Spec2Model ----
(***************************************************************************)
(* State-machine model of the push transport of slim81/homeapp:            *)
(* HomeAssistantWebSocketApi in src/src/api/homeAssistantWebSocket.ts.     *)
(*                                                                         *)
(* The transport object's fields are the program variables.  The browser   *)
(* WebSocket and the controller at its far end are the environment: a      *)
(* socket opens, delivers messages while OPEN, and ends with one close     *)
(* event (preceded by an error event when the connection failed).  A       *)
(* socket that disconnect() closed and dropped keeps its handlers until    *)
(* its close event has been delivered.  The controller follows the         *)
(* documented handshake: auth_required, then auth_ok or auth_invalid,      *)
(* then results / events for what it was asked on that connection.         *)
(***************************************************************************)
EXTENDS Integers, Sequences, FiniteSets, TLC

\* ---------------------------------------------------------------- bounds
MaxId == 2              \* message ids handed out (messageId stays <= MaxId + 1)
MaxDiscarded == 1       \* sockets dropped by disconnect() whose close event is outstanding
MaxListeners == 1       \* change listeners registered
MaxObservers == 1       \* connection-state / error observers registered
MaxCounted == 6         \* the attempt tally saturates here
MaxSceneCalls == 2
WindowLen == 4          \* notifications the observer's record keeps (the latest ones)
MaxVal == 2             \* distinct values an entity's state can take

\* ------------------------------------------------------ program constants
maxReconnectAttempts == 5
reconnectDelay == 1000

CLOSED == "closed"
CONNECTING == "connecting"
AUTHENTICATING == "authenticating"
CONNECTED == "connected"
RECONNECTING == "reconnecting"
ERROR == "error"
ConnectionState == {CLOSED, CONNECTING, AUTHENTICATING, CONNECTED, RECONNECTING, ERROR}

\* commands that go through sendCommand
Commands == {"call_service", "get_states", "subscribe_events"}

VARIABLES
  \* fields of HomeAssistantWebSocketApi
  socket,                   \* "null", or the readyState of this.socket
  connectionState,
  messageId,
  pendingCommands,          \* ids with a completion callback
  stateChangedCallbacks,    \* number of registered change listeners
  connectionStateCallbacks, \* number of registered connection-state observers
  errorCallbacks,           \* number of registered error observers
  reconnectTimer,           \* 0 = null, else the delay (ms) it was armed with
  heartbeatTimer,           \* TRUE = armed
  reconnectAttempts,
  urlValid,                 \* whether new WebSocket(wsUrl) accepts the configured url
  \* promises handed to callers
  connectPromise,           \* of the latest connect() that did not return early
  calls,                    \* id -> what became of the call sent with that id
  lastRefused,              \* outcome of the latest call refused as not connected
  \* what the observers were given
  stateSeen,                \* latest entries given to the connection-state observer
  lastError,                \* latest error given to the error observer
  eventsSeen,               \* whether a change listener has been invoked on this connection
  watched,                  \* the change listener registered with an id list: whether it
                            \* is registered, the ids given, the ids it was invoked for
  \* the environment: sockets and the controller
  discarded,                \* sockets closed by disconnect(), close event outstanding
  server,                   \* the controller's end of this.socket
  srvReqs,                  \* ids the controller has received and not answered
  srvSubscribed,            \* the controller holds a state_changed subscription
  \* history of the run
  lastCallerOp,             \* latest call the caller made: connect / disconnect
  authRejected,             \* auth_invalid received, no caller call since
  autoAttempts,             \* timer-started attempts since Connected / caller connect()
  attemptsSinceOpen,        \* timer-started attempts since a socket last opened
  undisturbed               \* the observer registered while Connected, and since then:
                            \* no caller connect() or disconnect(), no event of a
                            \* dropped socket

VARIABLES
  \* fields of RestApiAdapter
  connected,
  pollingInterval,          \* TRUE = the interval is set
  entityCallbacks,          \* number of registered change listeners
  connectionCallbacks,      \* number of registered connection-state observers
  restErrorCallbacks,       \* RestApiAdapter.errorCallbacks: number of error observers
  lastStates,               \* value last observed for the polled entity, -1 if none
  \* the environment: requests awaiting their response
  restFetches,              \* subset of {"connect", "poll", "call"}
  \* what the observers were given
  restNotified,             \* latest state given to the connection-state observers
  restLastError,            \* status of the latest failure given to the error
                            \* observers, -1 if none
  restWatched,              \* the change listener registered with an id list (as watched)
  lastPoll,                 \* the latest poll response handled: whether it succeeded, its
                            \* status, the listener invocations it made, and this.connected
                            \* when it arrived
  \* history of the run
  restDisconnects           \* consecutive disconnect() calls by the caller

VARIABLES
  \* state of HomeAssistantProvider
  api,                      \* "null", or the kind of the transport instance: "rest" / "websocket"
  uiConnected,              \* the provider's isConnected
  error,                    \* the provider's error: "null" or what the message is about
  entities,                 \* the entity table, an array of entities
  storedConfig,             \* the persisted configuration: "null", or its transport kind
  disconnectLeft,           \* what the provider's latest disconnect() left stored
  earlierApi,               \* the kind of a transport instance that a connect() replaced
                            \* and that can still notify the provider, or "null"
  \* state of SceneProvider
  activeScenes,             \* scene id -> [sceneId, originalStates]
  \* the asynchronous operation in progress and the values its closures hold
  task,
  overlapped,               \* an operation that was in progress when task was started
  sceneInvokes,             \* the scene turn_on calls sent since an operation last
                            \* started with none in progress and, if an activation,
                            \* with the scene not recorded
  \* history of the run
  capturedFrom,             \* the table captureEntityStates read in the latest Activate
  fetched,                  \* what the fetch forced by the latest Activate returned
  issued,                   \* what the latest Deactivate did for each captured entity it
                            \* has come to, in order: [of |-> the entity, call |-> the call]
  lastInvoke,               \* the latest facade callService that completed
  returned,                 \* how the promise of the latest callService, activateScene or
                            \* deactivateScene settled: "none", "pending", "resolved", "rejected"
  delivered                 \* member id -> the entity of the latest change notification
                            \* since the table was last replaced, Null if none

wsVars == <<socket, connectionState, messageId, pendingCommands, stateChangedCallbacks,
          connectionStateCallbacks, errorCallbacks, reconnectTimer, heartbeatTimer,
          reconnectAttempts, urlValid, connectPromise, calls, lastRefused, stateSeen,
          lastError, eventsSeen, watched, discarded, server, srvReqs, srvSubscribed,
          lastCallerOp, authRejected, autoAttempts, attemptsSinceOpen, undisturbed>>

restVars == <<connected, pollingInterval, entityCallbacks, connectionCallbacks,
              restErrorCallbacks, lastStates, restFetches, restNotified, restLastError,
              restWatched, lastPoll, restDisconnects>>

facadeVars == <<api, uiConnected, error, entities, storedConfig, disconnectLeft, earlierApi,
               activeScenes, task, overlapped, sceneInvokes, capturedFrom,
                fetched, issued, lastInvoke, returned, delivered>>

vars == <<wsVars, restVars, facadeVars>>

\* The part of the state the handlers read and write, as one record.
This == [socket |-> socket, connectionState |-> connectionState, messageId |-> messageId,
         pendingCommands |-> pendingCommands,
         stateChangedCallbacks |-> stateChangedCallbacks,
         connectionStateCallbacks |-> connectionStateCallbacks,
         errorCallbacks |-> errorCallbacks, reconnectTimer |-> reconnectTimer,
         heartbeatTimer |-> heartbeatTimer, reconnectAttempts |-> reconnectAttempts,
         connectPromise |-> connectPromise, calls |-> calls, stateSeen |-> stateSeen,
         lastError |-> lastError, eventsSeen |-> eventsSeen, watched |-> watched,
         discarded |-> discarded,
         server |-> server, srvReqs |-> srvReqs, srvSubscribed |-> srvSubscribed]

WsCommit(t) ==
  /\ socket' = t.socket
  /\ connectionState' = t.connectionState
  /\ messageId' = t.messageId
  /\ pendingCommands' = t.pendingCommands
  /\ stateChangedCallbacks' = t.stateChangedCallbacks
  /\ connectionStateCallbacks' = t.connectionStateCallbacks
  /\ errorCallbacks' = t.errorCallbacks
  /\ reconnectTimer' = t.reconnectTimer
  /\ heartbeatTimer' = t.heartbeatTimer
  /\ reconnectAttempts' = t.reconnectAttempts
  /\ connectPromise' = t.connectPromise
  /\ calls' = t.calls
  /\ stateSeen' = t.stateSeen
  /\ lastError' = t.lastError
  /\ eventsSeen' = t.eventsSeen
  /\ watched' = t.watched
  /\ discarded' = t.discarded
  /\ server' = t.server
  /\ srvReqs' = t.srvReqs
  /\ srvSubscribed' = t.srvSubscribed
  /\ urlValid' = urlValid

Commit(t) == WsCommit(t) /\ UNCHANGED <<restVars, facadeVars>>

\* ------------------------------------------------------------- helpers
Min(a, b) == IF a < b THEN a ELSE b

RECURSIVE Pow2(_)
Pow2(n) == IF n = 0 THEN 1 ELSE 2 * Pow2(n - 1)

\* The observer's record: the latest WindowLen entries, oldest first.
Keep(w, x) == IF Len(w) < WindowLen THEN Append(w, x) ELSE Append(Tail(w), x)

\* A promise settles once.
Settle(p, outcome) == IF p = "pending" THEN outcome ELSE p

\* An entity id "domain.name" is kept as its two parts: split('.')[0] and
\* startsWith(domain + '.') read the first.
Id(d, n) == [domain |-> d, name |-> n]

SceneId == Id("scene", "movie_night")
Lamp == Id("light", "lamp")
Fan == Id("switch", "fan")
\* a second scene, whose record the operations on SceneId have no business with
OtherScene == Id("scene", "dinner")

NoCall == [st |-> "unused", reply |-> "none", notified |-> FALSE]

\* no listener registered with an id list
NoPoll == [handled |-> FALSE, ok |-> FALSE, status |-> 0, heard |-> 0, connected |-> FALSE]

NoWatch == [registered |-> FALSE, filter |-> {}, heard |-> {}]


\* ------------------------------------------------ HomeAssistantWebSocketApi
\* updateConnectionState: no notification when the state does not change.
updateConnectionState(t, state) ==
  IF t.connectionState = state THEN t
  ELSE [t EXCEPT !.connectionState = state,
                 !.stateSeen = IF t.connectionStateCallbacks > 0 THEN Keep(@, state) ELSE @]

\* notifyError: every registered error observer is given the error.
notifyError(t, e) ==
  IF t.errorCallbacks > 0 THEN [t EXCEPT !.lastError = e] ELSE t

clearTimers(t) == [t EXCEPT !.heartbeatTimer = FALSE, !.reconnectTimer = 0]

setupHeartbeat(t) == [clearTimers(t) EXCEPT !.heartbeatTimer = TRUE]

\* attemptReconnect with the exhaustion test off by one (> for >=)
attemptReconnect_OffByOne(t) ==
  IF t.reconnectTimer # 0 THEN t
  ELSE IF t.reconnectAttempts > maxReconnectAttempts
       THEN notifyError(updateConnectionState(t, ERROR), "reconnect_failed")
       ELSE [updateConnectionState(t, RECONNECTING)
               EXCEPT !.reconnectTimer = reconnectDelay * Pow2(t.reconnectAttempts)]

\* attemptReconnect with a delay that grows by reconnectDelay per attempt
attemptReconnect_Linear(t) ==
  IF t.reconnectTimer # 0 THEN t
  ELSE IF t.reconnectAttempts >= maxReconnectAttempts
       THEN notifyError(updateConnectionState(t, ERROR), "reconnect_failed")
       ELSE [updateConnectionState(t, RECONNECTING)
               EXCEPT !.reconnectTimer = reconnectDelay * (t.reconnectAttempts + 1)]

\* attemptReconnect, up to arming the timer; the timer's callback is ReconnectTimerFire.
attemptReconnect(t) ==
  IF t.reconnectTimer # 0 THEN t
  ELSE IF t.reconnectAttempts >= maxReconnectAttempts
       THEN notifyError(updateConnectionState(t, ERROR), "reconnect_failed")
       ELSE [updateConnectionState(t, RECONNECTING)
               EXCEPT !.reconnectTimer = reconnectDelay * Pow2(t.reconnectAttempts)]

\* connect()'s first test: with this.socket OPEN or CONNECTING the promise
\* returned by this call is resolved at once.
connectResolvesAtOnce(t) == t.socket \in {"open", "connecting"}

\* connect(): returns early (resolved) while this.socket is OPEN or CONNECTING;
\* otherwise opens a socket whose handlers hold this call's resolve / reject.
connect(t) ==
  IF t.socket \in {"open", "connecting"} THEN t
  ELSE LET t1 == updateConnectionState(t, CONNECTING) IN
       IF urlValid
       THEN [t1 EXCEPT !.socket = "connecting", !.connectPromise = "pending",
                       !.server = "none", !.srvReqs = {}, !.srvSubscribed = FALSE,
                       !.eventsSeen = FALSE]
       ELSE [notifyError(updateConnectionState(t1, ERROR), "connect_failed")
               EXCEPT !.connectPromise = "rejected_error"]

\* socket.onopen
onopen(t) == setupHeartbeat([t EXCEPT !.reconnectAttempts = 0])

\* socket.onclose without the update to Closed
onclose_SkipsClosed(t) == attemptReconnect(clearTimers(t))

\* socket.onclose
onclose(t) == attemptReconnect(clearTimers(updateConnectionState(t, CLOSED)))

\* socket.onerror; own: the socket is this.socket, whose promise connectPromise is
onerror(t, own) ==
  LET t1 == notifyError(updateConnectionState(t, ERROR), "socket_error") IN
  IF own THEN [t1 EXCEPT !.connectPromise = Settle(@, "rejected_error")] ELSE t1

\* disconnect() that drops the socket and leaves the connection state as it is
disconnect_KeepsState(t) ==
  LET t1 == clearTimers(t)
  IN IF t1.socket = "null" THEN t1
     ELSE [t1 EXCEPT !.socket = "null", !.server = "none", !.srvReqs = {},
                     !.srvSubscribed = FALSE,
                     !.discarded = IF t1.socket \in {"open", "connecting"}
                                   THEN Append(@, [wasConnecting |-> t1.socket = "connecting",
                                                   promise |-> t1.connectPromise])
                                   ELSE @]

\* disconnect(); close() on a socket that is not yet closed leaves it to deliver its
\* close event later.
disconnect(t) ==
  LET t1 == clearTimers(t)
      t2 == IF t1.socket = "null" THEN t1
            ELSE [t1 EXCEPT !.socket = "null", !.server = "none", !.srvReqs = {},
                            !.srvSubscribed = FALSE,
                            !.discarded = IF t1.socket \in {"open", "connecting"}
                                          THEN Append(@, [wasConnecting |-> t1.socket = "connecting",
                                                          promise |-> t1.connectPromise])
                                          ELSE @]
  IN updateConnectionState(t2, CLOSED)

\* authenticate(): sends the auth message on this.socket
authenticate(t) == IF t.socket = "null" THEN t ELSE [t EXCEPT !.server = "auth_sent"]

\* handleResult completing the oldest pending command whatever the message's id
handleResult_OldestFirst(t, id, success) ==
  IF t.pendingCommands # {}
  THEN LET first == CHOOSE x \in t.pendingCommands : \A y \in t.pendingCommands : x <= y
           t1 == [t EXCEPT !.pendingCommands = @ \ {first}] IN
       IF success
       THEN [t1 EXCEPT !.calls[first].st = Settle(@, "resolved")]
       ELSE [notifyError(t1, "command_failed")
               EXCEPT !.calls[first].notified = (t1.errorCallbacks > 0)]
  ELSE t

\* handleResult: the callback of a successful result resolves the call's promise; a
\* failed result is given to the error observers.
handleResult(t, id, success) ==
  IF id \in t.pendingCommands
  THEN LET t1 == [t EXCEPT !.pendingCommands = @ \ {id}] IN
       IF success
       THEN [t1 EXCEPT !.calls[id].st = Settle(@, "resolved")]
       ELSE [notifyError(t1, "command_failed")
               EXCEPT !.calls[id].notified = (t1.errorCallbacks > 0)]
  ELSE t

\* handleEvent (state_changed): every registered change listener is invoked with
\* the event's entity id
handleEvent(t, entityId) ==
  IF t.stateChangedCallbacks > 0
  THEN [t EXCEPT !.eventsSeen = TRUE,
                 !.watched.heard = IF t.watched.registered THEN @ \cup {entityId} ELSE @]
  ELSE t

\* handleMessage whose auth_invalid branch leaves the connect() promise alone
handleMessage_AuthInvalidNoReject(t, type, id, success) ==
  CASE type = "auth_required" -> authenticate(updateConnectionState(t, AUTHENTICATING))
    [] type = "auth_ok" ->
         [updateConnectionState(t, CONNECTED) EXCEPT !.connectPromise = Settle(@, "resolved")]
    [] type = "auth_invalid" -> notifyError(updateConnectionState(t, ERROR), "auth_failed")
    [] type = "result" -> handleResult(t, id, success)
    [] type = "event" -> handleEvent(t, id)
    [] OTHER -> t

\* handleMessage, by message type; id is the id of a result message, the entity
\* id of a state_changed event
handleMessage(t, type, id, success) ==
  CASE type = "auth_required" -> authenticate(updateConnectionState(t, AUTHENTICATING))
    [] type = "auth_ok" ->
         [updateConnectionState(t, CONNECTED) EXCEPT !.connectPromise = Settle(@, "resolved")]
    [] type = "auth_invalid" ->
         [notifyError(updateConnectionState(t, ERROR), "auth_failed")
            EXCEPT !.connectPromise = Settle(@, "rejected_auth")]
    [] type = "result" -> handleResult(t, id, success)
    [] type = "event" -> handleEvent(t, id)
    [] OTHER -> t

\* sendCommand's guard: the call is refused unless connected
CanSend(t) == t.socket = "open" /\ t.connectionState = CONNECTED

\* sendCommand reading messageId without advancing it
sendCommand_SameId(t, cmd) ==
  LET id == t.messageId IN
  [t EXCEPT !.pendingCommands = @ \cup {id},
            !.calls[id] = [st |-> "pending", reply |-> "none", notified |-> FALSE],
            !.srvReqs = @ \cup {id},
            !.srvSubscribed = @ \/ (cmd = "subscribe_events")]

\* sendCommand past its guard: takes the next id, registers the callback, sends
sendCommand(t, cmd) ==
  LET id == t.messageId IN
  [t EXCEPT !.messageId = id + 1,
            !.pendingCommands = @ \cup {id},
            !.calls[id] = [st |-> "pending", reply |-> "none", notified |-> FALSE],
            !.srvReqs = @ \cup {id},
            !.srvSubscribed = @ \/ (cmd = "subscribe_events")]


\* ---------------------------------------------------------------- Init
\* The object as constructed; the configured url is one the socket constructor
\* accepts or one it throws on.
WsInit ==
  /\ socket = "null"
  /\ connectionState = CLOSED
  /\ messageId = 1
  /\ pendingCommands = {}
  /\ stateChangedCallbacks = 0
  /\ connectionStateCallbacks = 0
  /\ errorCallbacks = 0
  /\ reconnectTimer = 0
  /\ heartbeatTimer = FALSE
  /\ reconnectAttempts = 0
  /\ urlValid \in BOOLEAN
  /\ connectPromise = "none"
  /\ calls = [i \in 1..MaxId |-> NoCall]
  /\ lastRefused = "none"
  /\ stateSeen = <<>>
  /\ lastError = "none"
  /\ eventsSeen = FALSE
  /\ watched = NoWatch
  /\ discarded = <<>>
  /\ server = "none"
  /\ srvReqs = {}
  /\ srvSubscribed = FALSE
  /\ lastCallerOp = "none"
  /\ authRejected = FALSE
  /\ autoAttempts = 0
  /\ attemptsSinceOpen = 0
  /\ undisturbed = FALSE

\* RestApiAdapter as constructed
RestInit ==
  /\ connected = FALSE
  /\ pollingInterval = FALSE
  /\ entityCallbacks = 0
  /\ connectionCallbacks = 0
  /\ restErrorCallbacks = 0
  /\ lastStates = -1
  /\ restFetches = {}
  /\ restNotified = "none"
  /\ restLastError = -1
  /\ restWatched = NoWatch
  /\ lastPoll = NoPoll
  /\ restDisconnects = 0

\* ------------------------------------------------------- caller's calls
\* connect() called by the application
Connect ==
  /\ Commit(connect(This))
  /\ lastCallerOp' = "connect"
  /\ authRejected' = FALSE
  /\ autoAttempts' = 0
  /\ undisturbed' = FALSE
  /\ UNCHANGED <<lastRefused, attemptsSinceOpen>>

\* disconnect() called by the application
Disconnect ==
  /\ socket \in {"open", "connecting"} => Len(discarded) < MaxDiscarded
  /\ Commit(disconnect(This))
  /\ lastCallerOp' = "disconnect"
  /\ authRejected' = FALSE
  /\ undisturbed' = FALSE
  /\ UNCHANGED <<lastRefused, autoAttempts, attemptsSinceOpen>>

\* callService / getStates / getServices / getConfig: sendCommand(cmd)
Invoke ==
  /\ \E cmd \in Commands \ {"subscribe_events"} :
       IF CanSend(This)
       THEN /\ messageId <= MaxId
            /\ Commit(sendCommand(This, cmd))
            /\ UNCHANGED lastRefused
       ELSE /\ Commit(This)
            /\ lastRefused' = IF errorCallbacks > 0 THEN "silent" ELSE "unobserved"
  /\ UNCHANGED <<lastCallerOp, authRejected, autoAttempts, attemptsSinceOpen, undisturbed>>

\* subscribeEntities(callback)
SubscribeEntities ==
  /\ stateChangedCallbacks < MaxListeners
  /\ LET t1 == [This EXCEPT !.stateChangedCallbacks = @ + 1] IN
       IF connectionState # CONNECTED
       THEN /\ Commit(t1)
            /\ UNCHANGED lastRefused
       ELSE IF CanSend(t1)
            THEN /\ messageId <= MaxId
                 /\ Commit(sendCommand(t1, "subscribe_events"))
                 /\ UNCHANGED lastRefused
            ELSE /\ Commit(t1)
                 /\ lastRefused' = IF errorCallbacks > 0 THEN "silent" ELSE "unobserved"
  /\ UNCHANGED <<lastCallerOp, authRejected, autoAttempts, attemptsSinceOpen, undisturbed>>

\* subscribeEntities(callback, entityIds): the id list goes into the command and
\* nowhere else
SubscribeEntitiesFor ==
  /\ ~watched.registered
  /\ \E entityIds \in {{Lamp}, {Fan}} :
       LET t1 == [This EXCEPT !.stateChangedCallbacks = @ + 1,
                              !.watched = [registered |-> TRUE, filter |-> entityIds,
                                           heard |-> {}]] IN
       IF connectionState # CONNECTED
       THEN /\ Commit(t1)
            /\ UNCHANGED lastRefused
       ELSE IF CanSend(t1)
            THEN /\ messageId <= MaxId
                 /\ Commit(sendCommand(t1, "subscribe_events_for"))
                 /\ UNCHANGED lastRefused
            ELSE /\ Commit(t1)
                 /\ lastRefused' = IF errorCallbacks > 0 THEN "silent" ELSE "unobserved"
  /\ UNCHANGED <<lastCallerOp, authRejected, autoAttempts, attemptsSinceOpen, undisturbed>>

\* HomeAssistantWebSocketApi.getConnectionState()
wsGetConnectionState(t) == t.connectionState

\* subscribeConnectionState registering the callback without calling it
SubscribeConnectionState_Silent ==
  /\ connectionStateCallbacks < MaxObservers
  /\ Commit([This EXCEPT !.connectionStateCallbacks = @ + 1, !.stateSeen = <<>>])
  /\ undisturbed' = (connectionState = CONNECTED)
  /\ UNCHANGED <<lastRefused, lastCallerOp, authRejected, autoAttempts, attemptsSinceOpen>>

\* subscribeConnectionState(callback): registered, then called with the current state
SubscribeConnectionState ==
  /\ connectionStateCallbacks < MaxObservers
  /\ Commit([This EXCEPT !.connectionStateCallbacks = @ + 1,
                         !.stateSeen = <<connectionState>>])
  /\ undisturbed' = (connectionState = CONNECTED)
  /\ UNCHANGED <<lastRefused, lastCallerOp, authRejected, autoAttempts, attemptsSinceOpen>>

\* subscribeError(callback)
SubscribeError ==
  /\ errorCallbacks < MaxObservers
  /\ Commit([This EXCEPT !.errorCallbacks = @ + 1])
  /\ UNCHANGED <<lastRefused, lastCallerOp, authRejected, autoAttempts, attemptsSinceOpen, undisturbed>>

\* ------------------------------------------------ socket and timer events
\* this.socket opens: onopen
SocketOpen ==
  /\ socket = "connecting"
  /\ Commit(onopen([This EXCEPT !.socket = "open", !.server = "hello"]))
  /\ attemptsSinceOpen' = 0
  /\ UNCHANGED <<lastRefused, lastCallerOp, authRejected, autoAttempts, undisturbed>>

\* this.socket ends: the connection failed (error event, then close event) or was
\* closed (close event alone).  A socket that never opened ends by failing.
SocketClose ==
  /\ socket \in {"connecting", "open"}
  /\ \E withError \in BOOLEAN :
       /\ socket = "connecting" => withError
       /\ LET t0 == [This EXCEPT !.socket = "closed", !.server = "none", !.srvReqs = {},
                                 !.srvSubscribed = FALSE]
              t1 == IF withError THEN onerror(t0, TRUE) ELSE t0
          IN Commit(onclose(t1))
  /\ UNCHANGED <<lastRefused, lastCallerOp, authRejected, autoAttempts, attemptsSinceOpen, undisturbed>>

\* a socket that disconnect() dropped delivers its close event
DiscardedClose ==
  /\ \E i \in 1..Len(discarded) : \E withError \in BOOLEAN :
       /\ discarded[i].wasConnecting => withError
       /\ LET t0 == [This EXCEPT !.discarded =
                       SubSeq(@, 1, i - 1) \o SubSeq(@, i + 1, Len(@))]
              t1 == IF withError THEN onerror(t0, FALSE) ELSE t0
          IN Commit(onclose(t1))
  /\ undisturbed' = FALSE
  /\ UNCHANGED <<lastRefused, lastCallerOp, authRejected, autoAttempts, attemptsSinceOpen>>

\* the reconnect timer's callback
ReconnectTimerFire ==
  /\ reconnectTimer # 0
  /\ Commit(connect([This EXCEPT !.reconnectTimer = 0, !.reconnectAttempts = @ + 1]))
  /\ autoAttempts' = Min(autoAttempts + 1, MaxCounted)
  /\ attemptsSinceOpen' = Min(attemptsSinceOpen + 1, MaxCounted)
  /\ UNCHANGED <<lastRefused, lastCallerOp, authRejected, undisturbed>>

\* the heartbeat interval's callback: a ping with the next id
HeartbeatTick ==
  /\ heartbeatTimer
  /\ socket = "open"
  /\ messageId <= MaxId
  /\ Commit([This EXCEPT !.messageId = @ + 1, !.calls[messageId].st = "ping"])
  /\ UNCHANGED <<lastRefused, lastCallerOp, authRejected, autoAttempts, attemptsSinceOpen, undisturbed>>

\* ------------------------------------------------ messages from the controller
ServerAuthRequired ==
  /\ socket = "open" /\ server = "hello"
  /\ Commit(handleMessage([This EXCEPT !.server = "await_auth"], "auth_required", 0, TRUE))
  /\ UNCHANGED <<lastRefused, lastCallerOp, authRejected, autoAttempts, attemptsSinceOpen, undisturbed>>

ServerAuthOk ==
  /\ socket = "open" /\ server = "auth_sent"
  /\ Commit(handleMessage([This EXCEPT !.server = "authed"], "auth_ok", 0, TRUE))
  /\ autoAttempts' = IF connectionState' = CONNECTED THEN 0 ELSE autoAttempts
  /\ UNCHANGED <<lastRefused, lastCallerOp, authRejected, attemptsSinceOpen, undisturbed>>

ServerAuthInvalid ==
  /\ socket = "open" /\ server = "auth_sent"
  /\ Commit(handleMessage([This EXCEPT !.server = "invalid"], "auth_invalid", 0, TRUE))
  /\ authRejected' = TRUE
  /\ UNCHANGED <<lastRefused, lastCallerOp, autoAttempts, attemptsSinceOpen, undisturbed>>

\* the controller answers a command it received on this connection
ServerResult ==
  /\ socket = "open" /\ server = "authed"
  /\ \E id \in srvReqs : \E success \in BOOLEAN :
       Commit(handleMessage([This EXCEPT !.srvReqs = @ \ {id},
                                        !.calls[id].reply = IF success THEN "ok" ELSE "fail"],
                            "result", id, success))
  /\ UNCHANGED <<lastRefused, lastCallerOp, authRejected, autoAttempts, attemptsSinceOpen, undisturbed>>

\* the controller pushes a state_changed event to a connection that subscribed
ServerEvent ==
  /\ socket = "open" /\ server = "authed" /\ srvSubscribed
  /\ \E entityId \in {Lamp, Fan} : Commit(handleMessage(This, "event", entityId, TRUE))
  /\ UNCHANGED <<lastRefused, lastCallerOp, authRejected, autoAttempts, attemptsSinceOpen, undisturbed>>

\* ------------------------------------------------------- RestApiAdapter
\* The adapter's fields as one record.
RestThis == [connected |-> connected, pollingInterval |-> pollingInterval,
             entityCallbacks |-> entityCallbacks,
             connectionCallbacks |-> connectionCallbacks,
             restErrorCallbacks |-> restErrorCallbacks, lastStates |-> lastStates,
             restFetches |-> restFetches, restNotified |-> restNotified,
             restLastError |-> restLastError, restWatched |-> restWatched,
             lastPoll |-> lastPoll]

RestFields(r) ==
  /\ connected' = r.connected
  /\ pollingInterval' = r.pollingInterval
  /\ entityCallbacks' = r.entityCallbacks
  /\ connectionCallbacks' = r.connectionCallbacks
  /\ restErrorCallbacks' = r.restErrorCallbacks
  /\ lastStates' = r.lastStates
  /\ restFetches' = r.restFetches
  /\ restNotified' = r.restNotified
  /\ restLastError' = r.restLastError
  /\ restWatched' = r.restWatched
  /\ lastPoll' = r.lastPoll

RestCommit(r) == RestFields(r) /\ UNCHANGED <<wsVars, facadeVars>>

\* HTTP status of a failed request; 0 stands for a failure without a status
\* (network error: ApiError.status undefined)
RestStatuses == {0, 401, 404, 500}

_notifyConnectionState(r, state) ==
  IF r.connectionCallbacks > 0 THEN [r EXCEPT !.restNotified = state] ELSE r

_notifyError(r, status) ==
  IF r.restErrorCallbacks > 0 THEN [r EXCEPT !.restLastError = status] ELSE r

\* isConnected() / getConnectionState()
isConnected(r) == r.connected

getConnectionState(r) == IF r.connected THEN CONNECTED ELSE CLOSED

\* _pollEntities up to its await: nothing without a connection or a listener
_pollEntities(r) ==
  IF ~r.connected \/ r.entityCallbacks = 0 THEN r
  ELSE [r EXCEPT !.restFetches = @ \cup {"poll"}]

\* _startPolling: a first poll at once, then the interval
_startPolling(r) == [_pollEntities(r) EXCEPT !.pollingInterval = TRUE]

\* RestApiAdapter.disconnect
restDisconnect(r) ==
  _notifyConnectionState([r EXCEPT !.connected = FALSE, !.pollingInterval = FALSE], CLOSED)

\* _handleApiError disconnecting on every failure
_handleApiError_AlwaysDisconnects(r, status) ==
  restDisconnect(_notifyError(r, status))

\* _handleApiError: 401 disconnects; no status or a 5xx notifies Error
_handleApiError(r, status) ==
  LET r1 == _notifyError(r, status) IN
  IF status = 401 THEN restDisconnect(r1)
  ELSE IF status = 0 \/ status >= 500 THEN _notifyConnectionState(r1, ERROR)
  ELSE r1

\* RestApiAdapter.connect after its await of getStates()
restConnectReturn(r, ok, status) ==
  IF ok
  THEN LET r1 == _notifyConnectionState([r EXCEPT !.connected = TRUE], CONNECTED) IN
       IF r1.entityCallbacks > 0 THEN _startPolling(r1) ELSE r1
  ELSE _notifyError(_notifyConnectionState([r EXCEPT !.connected = FALSE], ERROR), status)

\* _pollEntities notifying for every entity of the response, changed or not
restPollReturn_NoCompare(r, ok, value, status) ==
  LET polled == [handled |-> TRUE, ok |-> ok, status |-> status, heard |-> 0,
                 connected |-> r.connected] IN
  IF ok
  THEN [r EXCEPT !.lastStates = value,
                 !.lastPoll = [polled EXCEPT !.heard = r.entityCallbacks],
                 !.restWatched.heard = IF r.restWatched.registered
                                       THEN @ \cup {Lamp} ELSE @]
  ELSE [_handleApiError(r, status) EXCEPT !.lastPoll = polled]

\* the body of _pollEntities after its await: one notification per listener for
\* an entity whose value differs from the one last observed
\* (the polls of this model report the value of one entity, Lamp)
restPollReturn(r, ok, value, status) ==
  LET polled == [handled |-> TRUE, ok |-> ok, status |-> status, heard |-> 0,
                 connected |-> r.connected] IN
  IF ok
  THEN IF r.lastStates = value THEN [r EXCEPT !.lastPoll = polled]
       ELSE [r EXCEPT !.lastStates = value,
                      !.lastPoll = [polled EXCEPT !.heard = r.entityCallbacks],
                      !.restWatched.heard = IF r.restWatched.registered
                                            THEN @ \cup {Lamp} ELSE @]
  ELSE [_handleApiError(r, status) EXCEPT !.lastPoll = polled]

\* RestApiAdapter.connect(): the request that tests the connection
RestConnect ==
  /\ "connect" \notin restFetches
  /\ RestCommit([RestThis EXCEPT !.restFetches = @ \cup {"connect"}])
  /\ restDisconnects' = 0

RestConnectReturn ==
  /\ "connect" \in restFetches
  /\ \E ok \in BOOLEAN : \E status \in RestStatuses :
       /\ ok => status = 0
       /\ RestCommit(restConnectReturn([RestThis EXCEPT !.restFetches = @ \ {"connect"}],
                                        ok, status))
  /\ UNCHANGED restDisconnects

\* RestApiAdapter.disconnect() called by the application
RestDisconnect ==
  /\ RestCommit(restDisconnect(RestThis))
  /\ restDisconnects' = Min(restDisconnects + 1, 2)

\* subscribeToEntities(callback)
RestSubscribeToEntities ==
  /\ entityCallbacks < MaxListeners
  /\ LET r1 == [RestThis EXCEPT !.entityCallbacks = @ + 1] IN
       RestCommit(IF r1.connected /\ ~r1.pollingInterval THEN _startPolling(r1) ELSE r1)
  /\ restDisconnects' = 0

\* subscribeToEntities(callback, entityIds): entityIds is not read
RestSubscribeToEntitiesFor ==
  /\ ~restWatched.registered
  /\ \E entityIds \in {{Lamp}, {Fan}} :
       LET r1 == [RestThis EXCEPT !.entityCallbacks = @ + 1,
                                  !.restWatched = [registered |-> TRUE, filter |-> entityIds,
                                                   heard |-> {}]] IN
       RestCommit(IF r1.connected /\ ~r1.pollingInterval THEN _startPolling(r1) ELSE r1)
  /\ restDisconnects' = 0

\* subscribeToConnectionState(callback): registered, then called at once
RestSubscribeToConnectionState ==
  /\ connectionCallbacks < MaxObservers
  /\ RestCommit([RestThis EXCEPT !.connectionCallbacks = @ + 1,
                                 !.restNotified = getConnectionState(RestThis)])
  /\ restDisconnects' = 0

\* subscribeToErrors(callback)
RestSubscribeToErrors ==
  /\ restErrorCallbacks < MaxObservers
  /\ RestCommit([RestThis EXCEPT !.restErrorCallbacks = @ + 1])
  /\ restDisconnects' = 0

\* the polling interval's callback
RestPollTick ==
  /\ pollingInterval
  /\ RestCommit(_pollEntities(RestThis))
  /\ UNCHANGED restDisconnects

\* the response to a poll's getStates()
RestPollReturn ==
  /\ "poll" \in restFetches
  /\ \E ok \in BOOLEAN : \E value \in 0..(MaxVal - 1) : \E status \in RestStatuses :
       /\ ok => status = 0
       /\ ~ok => value = 0
       /\ RestCommit(restPollReturn([RestThis EXCEPT !.restFetches = @ \ {"poll"}],
                                     ok, value, status))
  /\ UNCHANGED restDisconnects

\* getStates / getState / getServices / callService / getEntitiesByDomain: the request
RestCall ==
  /\ "call" \notin restFetches
  /\ RestCommit([RestThis EXCEPT !.restFetches = @ \cup {"call"}])
  /\ restDisconnects' = 0

\* its response: a failure goes through _handleApiError and is thrown again
RestCallReturn ==
  /\ "call" \in restFetches
  /\ \E ok \in BOOLEAN : \E status \in RestStatuses :
       /\ ok => status = 0
       /\ LET r1 == [RestThis EXCEPT !.restFetches = @ \ {"call"}] IN
            RestCommit(IF ok THEN r1 ELSE _handleApiError(r1, status))
  /\ UNCHANGED restDisconnects

\* ------------------------------------------------------- entities

\* attribute maps: attribute name -> value; names a map lacks are undefined
NoAttributes == [a \in {} |-> 0]

AttributeValue(a) ==
  CASE a = "brightness" -> 180
    [] a = "color_temp" -> 300
    [] a = "rgb_color" -> 255
    [] a = "current_position" -> 40
    [] OTHER -> 1

Attributes(names) == [a \in names |-> AttributeValue(a)]

Entity(id, st, attrs) == [entity_id |-> id, state |-> st, attributes |-> attrs]

\* the member list of the scene: Object.keys(scene.attributes.entities)
SceneMembers == <<Lamp, Fan>>

SceneEntity == [entity_id |-> SceneId, state |-> "scening",
                attributes |-> [entities |-> SceneMembers]]

\* the v-th value the controller can report for a member
EntityOf(id, v) ==
  IF id.domain = "light"
  THEN IF v = 0 THEN Entity(id, "off", Attributes({"friendly_name"}))
       ELSE Entity(id, "on", [Attributes({"brightness", "friendly_name"})
                                EXCEPT !["brightness"] = 180 + (v - 1)])
  ELSE IF v = 0 THEN Entity(id, "off", Attributes({"friendly_name"}))
       ELSE Entity(id, "on", [Attributes({"friendly_name", "icon"}) EXCEPT !["icon"] = v])

\* what getStates() can return: the scene and its members, each with some value
Snapshots ==
  {<<SceneEntity, EntityOf(Lamp, w[1]), EntityOf(Fan, w[2])>> :
     w \in (0..(MaxVal - 1)) \X (0..(MaxVal - 1))}

\* new_state of a state_changed event for an entity that was removed
Null == [null |-> TRUE]

\* ------------------------------------------------------- HomeAssistantProvider
\* prevEntities.findIndex(e => e.entity_id === entityId): 0 stands for -1
findIndex(tbl, entityId) ==
  IF \E i \in 1..Len(tbl) : tbl[i].entity_id = entityId
  THEN CHOOSE i \in 1..Len(tbl) :
         /\ tbl[i].entity_id = entityId
         /\ \A j \in 1..(i - 1) : tbl[j].entity_id # entityId
  ELSE 0

\* handleEntityStateChange's updater always appending
handleEntityStateChange_Appends(tbl, entityId, newState) ==
  IF newState = Null THEN tbl ELSE Append(tbl, newState)

\* handleEntityStateChange's updater: replace the entry in place, else append
handleEntityStateChange(tbl, entityId, newState) ==
  IF newState = Null THEN tbl
  ELSE LET index == findIndex(tbl, entityId) IN
       IF index > 0 THEN [tbl EXCEPT ![index] = newState] ELSE Append(tbl, newState)

\* getEntity: entities.find(...), Null for undefined
getEntity(tbl, entityId) ==
  LET index == findIndex(tbl, entityId) IN IF index > 0 THEN tbl[index] ELSE Null

\* handleConnectionStateChange, as far as isConnected goes
handleConnectionStateChange(flag, state) ==
  CASE state = CONNECTED -> TRUE
    [] state \in {CLOSED, ERROR} -> FALSE
    [] OTHER -> flag

\* ------------------------------------------------------- SceneProvider
\* getSceneEntities
getSceneEntities(scene) ==
  IF "entities" \in DOMAIN scene.attributes THEN scene.attributes.entities ELSE <<>>

LightAttributes == {"brightness", "color_temp", "rgb_color"}

\* captureEntityStates, one entity, with a light keeping all its attributes
captureEntityState_KeepsAll(tbl, entityId) ==
  LET entity == getEntity(tbl, entityId) IN
  IF entity = Null
  THEN [entityId |-> entityId, state |-> "unknown", attributes |-> NoAttributes]
  ELSE [entityId |-> entityId, state |-> entity.state, attributes |-> entity.attributes]

\* captureEntityStates, one entity: a light keeps brightness, color_temp and
\* rgb_color where defined, any other entity all its attributes; an id that is not
\* in the table gives state 'unknown' and no attributes
captureEntityState(tbl, entityId) ==
  LET entity == getEntity(tbl, entityId) IN
  IF entity = Null
  THEN [entityId |-> entityId, state |-> "unknown", attributes |-> NoAttributes]
  ELSE [entityId |-> entityId, state |-> entity.state,
        attributes |-> IF entityId.domain = "light"
                       THEN [a \in LightAttributes \cap DOMAIN entity.attributes |->
                               entity.attributes[a]]
                       ELSE entity.attributes]

captureEntityStates(tbl, entityIds) ==
  [i \in 1..Len(entityIds) |-> captureEntityState(tbl, entityIds[i])]

\* a service call: callService(domain, service, data); data has entity_id and the
\* other fields
ServiceCall(d, svc, id, rest) ==
  [domain |-> d, service |-> svc, entity_id |-> id, data |-> rest]

\* no call for this entity
Skip == [service |-> "none"]

\* the loop body with the light case sending no captured attribute
restoreCall_LightBare(entityState) ==
  LET domain == entityState.entityId.domain
      id == entityState.entityId
      attrs == entityState.attributes
  IN CASE domain = "light" ->
            IF entityState.state = "on"
            THEN ServiceCall(domain, "turn_on", id, [a \in {"transition"} |-> 1])
            ELSE ServiceCall(domain, "turn_off", id, [a \in {"transition"} |-> 1])
       [] domain \in {"switch", "input_boolean"} ->
            ServiceCall(domain, IF entityState.state = "on" THEN "turn_on" ELSE "turn_off",
                        id, NoAttributes)
       [] domain = "cover" ->
            IF entityState.state \in {"open", "opening"}
            THEN ServiceCall(domain, "set_cover_position", id,
                   [a \in {"position"} \cap (IF "current_position" \in DOMAIN attrs
                                              THEN {"position"} ELSE {}) |->
                      attrs["current_position"]])
            ELSE ServiceCall(domain, "close_cover", id, NoAttributes)
       [] OTHER ->
            IF entityState.state = "on" THEN ServiceCall(domain, "turn_on", id, NoAttributes)
            ELSE IF entityState.state = "off"
                 THEN ServiceCall(domain, "turn_off", id, NoAttributes)
                 ELSE Skip

\* the body of deactivateScene's loop: the call that restores one captured entity
restoreCall(entityState) ==
  LET domain == entityState.entityId.domain
      id == entityState.entityId
      attrs == entityState.attributes
  IN CASE domain = "light" ->
            IF entityState.state = "on"
            THEN ServiceCall(domain, "turn_on", id,
                   [a \in {"transition"} \cup (LightAttributes \cap DOMAIN attrs) |->
                      IF a = "transition" THEN 1 ELSE attrs[a]])
            ELSE ServiceCall(domain, "turn_off", id, [a \in {"transition"} |-> 1])
       [] domain \in {"switch", "input_boolean"} ->
            ServiceCall(domain, IF entityState.state = "on" THEN "turn_on" ELSE "turn_off",
                        id, NoAttributes)
       [] domain = "cover" ->
            IF entityState.state \in {"open", "opening"}
            THEN ServiceCall(domain, "set_cover_position", id,
                   [a \in {"position"} \cap (IF "current_position" \in DOMAIN attrs
                                              THEN {"position"} ELSE {}) |->
                      attrs["current_position"]])
            ELSE ServiceCall(domain, "close_cover", id, NoAttributes)
       [] OTHER ->
            IF entityState.state = "on" THEN ServiceCall(domain, "turn_on", id, NoAttributes)
            ELSE IF entityState.state = "off"
                 THEN ServiceCall(domain, "turn_off", id, NoAttributes)
                 ELSE Skip

\* ------------------------------------------------------- the application
\* The two providers with the transport instance they hold.  An asynchronous
\* function runs with the values of the render that created it: task holds them.
\* A promise that an await waits on settles in the step of the response; a step
\* runs the continuation up to the next await that has to wait.
NoTask == [kind |-> "none", pc |-> "idle", reply |-> "none", api |-> "null",
           uiConnected |-> FALSE, entities |-> <<>>, originalStates |-> <<>>, i |-> 0]

NoInvoke == [kind |-> "none", api |-> "null", ok |-> FALSE, transport |-> CLOSED,
             refreshed |-> FALSE, i |-> 0]

FacadeThis == [api |-> api, uiConnected |-> uiConnected, error |-> error,
               storedConfig |-> storedConfig, disconnectLeft |-> disconnectLeft,
               earlierApi |-> earlierApi,
               entities |-> entities, activeScenes |-> activeScenes, task |-> task,
               overlapped |-> overlapped, sceneInvokes |-> sceneInvokes,
               capturedFrom |-> capturedFrom, fetched |-> fetched, issued |-> issued,
               lastInvoke |-> lastInvoke, returned |-> returned,
               delivered |-> delivered]

Sys == [ws |-> This, rest |-> RestThis, f |-> FacadeThis]

FacadeFields(f) ==
  /\ api' = f.api
  /\ uiConnected' = f.uiConnected
  /\ error' = f.error
  /\ storedConfig' = f.storedConfig
  /\ disconnectLeft' = f.disconnectLeft
  /\ entities' = f.entities
  /\ activeScenes' = f.activeScenes
  /\ task' = (IF f.task = NoTask THEN f.overlapped ELSE f.task)
  /\ overlapped' = (IF f.task = NoTask THEN NoTask ELSE f.overlapped)
  /\ earlierApi' = f.earlierApi
  /\ sceneInvokes' = f.sceneInvokes
  /\ capturedFrom' = f.capturedFrom
  /\ fetched' = f.fetched
  /\ issued' = f.issued
  /\ lastInvoke' = f.lastInvoke
  /\ delivered' = f.delivered
  /\ returned' = f.returned

SysCommit(s) ==
  /\ WsCommit(s.ws)
  /\ RestFields(s.rest)
  /\ FacadeFields(s.f)
  /\ UNCHANGED <<lastRefused, lastCallerOp, authRejected, autoAttempts, attemptsSinceOpen,
                 undisturbed, restDisconnects>>

\* no operation in progress that can still continue
Idle == task.kind = "none" \/ task.reply = "never"

\* The provider's handlers are the observers of the transport it created: what
\* an adapter method notified goes to handleConnectionStateChange and handleApiError.
RestProbe(r) == [r EXCEPT !.restNotified = "none", !.restLastError = -1]

RestFed(s, r1) ==
  [s EXCEPT !.rest = [r1 EXCEPT !.restNotified = IF @ = "none" THEN s.rest.restNotified ELSE @,
                               !.restLastError = IF @ = -1 THEN s.rest.restLastError ELSE @],
            !.f.uiConnected = IF r1.restNotified = "none" THEN @
                              ELSE handleConnectionStateChange(@, r1.restNotified),
            !.f.error = IF r1.restLastError # -1 THEN "api_error"
                        ELSE IF r1.restNotified = CONNECTED THEN "null" ELSE @]

RECURSIVE FoldStates(_, _)
FoldStates(flag, seen) ==
  IF seen = <<>> THEN flag
  ELSE FoldStates(handleConnectionStateChange(flag, Head(seen)), Tail(seen))

WsProbe(t) == [t EXCEPT !.stateSeen = <<>>, !.lastError = "none"]

WsFed(s, t1) ==
  [s EXCEPT !.ws = [t1 EXCEPT !.stateSeen = IF @ = <<>> THEN s.ws.stateSeen ELSE @,
                             !.lastError = IF @ = "none" THEN s.ws.lastError ELSE @],
            !.f.uiConnected = FoldStates(@, t1.stateSeen),
            !.f.error = IF t1.lastError # "none" THEN "api_error"
                        ELSE IF \E k \in 1..Len(t1.stateSeen) : t1.stateSeen[k] = CONNECTED
                             THEN "null" ELSE @]

\* api.getConnectionState() of the instance an operation holds
apiConnectionState(s, a) ==
  IF a = "rest" THEN getConnectionState(s.rest) ELSE s.ws.connectionState

\* The push transport's handling of the reply to a command, by sendCommand and
\* handleMessage on the transport as it is (message ids are not followed here):
\* calls[1].st of the result is "resolved", or "pending" when the promise is left
\* unsettled.
pushReply(t, success) ==
  LET t0 == [t EXCEPT !.messageId = 1, !.pendingCommands = {},
                      !.calls = [i \in 1..MaxId |-> NoCall]]
  IN handleMessage(sendCommand(t0, "call_service"), "result", 1, success)

\* a request through the adapter the operation holds: sent, or refused at once
\* (the push transport's 'WebSocket not connected')
apiRequest(s, pc) ==
  LET a == s.f.task.api IN
  IF a = "rest"
  THEN [s EXCEPT !.rest.restFetches = @ \cup {"call"}, !.f.task.pc = pc]
  ELSE IF CanSend(s.ws) THEN [s EXCEPT !.f.task.pc = pc]
       ELSE [s EXCEPT !.f.task.pc = "failed"]

\* the invocation of the operation in progress has failed
invokeFailed(s) ==
  IF s.f.task.pc \in {"invoke", "restore", "capture", "start"}
  THEN [s EXCEPT !.f.lastInvoke =
          [kind |-> s.f.task.kind, api |-> s.f.task.api, ok |-> FALSE,
           transport |-> apiConnectionState(s, s.f.task.api), refreshed |-> FALSE,
           i |-> s.f.task.i]]
  ELSE s

\* a failed response: the pull adapter's methods go through _handleApiError and
\* throw; the push transport's handleResult notifies and leaves the promise as
\* pushReply says
apiFailure(s, status) ==
  IF s.f.task.api = "rest"
  THEN [RestFed(invokeFailed(s), _handleApiError(RestProbe(s.rest), status))
          EXCEPT !.f.task.pc = "failed"]
  ELSE LET t1 == pushReply(WsProbe(s.ws), FALSE)
           s1 == WsFed(invokeFailed(s), [WsProbe(s.ws) EXCEPT !.lastError = t1.lastError])
       IN IF t1.calls[1].st = "rejected" THEN [s1 EXCEPT !.f.task.pc = "failed"]
          ELSE [s1 EXCEPT !.f.task.reply = "never"]

setError(s, msg) == [s EXCEPT !.f.error = msg]

\* callService up to api.callService(...): throws without an api
callService(s) ==
  IF s.f.task.api = "null" THEN [s EXCEPT !.f.task.pc = "failed"]
  ELSE LET s1 == apiRequest(s, "invoke") IN
       IF s1.f.task.pc = "failed"
       THEN setError([invokeFailed(s) EXCEPT !.f.task.pc = "failed"], "call_failed")
       ELSE [s1 EXCEPT !.f.sceneInvokes = IF s.f.task.kind = "activate"
                                          THEN Min(@ + 1, MaxSceneCalls) ELSE @]

\* refreshEntities up to api.getStates(): returns the table it holds when it has
\* no api or is not connected
refreshEntities(s, pc) ==
  IF s.f.task.api = "null" \/ ~s.f.task.uiConnected THEN [s EXCEPT !.f.task.pc = "skipped"]
  ELSE LET s1 == apiRequest(s, pc) IN
       IF s1.f.task.pc = "failed" THEN setError(s1, "refresh_failed") ELSE s1

\* callService after api.callService(...) resolved: the extra fetch when the
\* transport does not report Connected
afterCallService(s) ==
  LET s0 == [s EXCEPT !.f.lastInvoke =
               [kind |-> s.f.task.kind, api |-> s.f.task.api, ok |-> TRUE,
                transport |-> apiConnectionState(s, s.f.task.api), refreshed |-> FALSE,
                i |-> s.f.task.i]]
  IN IF apiConnectionState(s0, s0.f.task.api) # CONNECTED
     THEN LET s1 == refreshEntities(s0, "refresh") IN
          IF s1.f.task.pc = "skipped" THEN [s1 EXCEPT !.f.task.pc = "done"]
          ELSE IF s1.f.task.pc = "failed" THEN setError(s1, "call_failed")
          ELSE s1
     ELSE [s0 EXCEPT !.f.task.pc = "done"]

\* the body of deactivateScene's loop from entity i on, up to the first call
\* that has to wait
RECURSIVE restoreFrom(_)
restoreFrom(s) ==
  LET tk == s.f.task IN
  IF tk.i > Len(tk.originalStates)
  THEN [s EXCEPT !.f.task = NoTask, !.f.returned = "resolved"]
  ELSE LET c == restoreCall(tk.originalStates[tk.i]) IN
       IF c = Skip
       THEN restoreFrom([s EXCEPT !.f.task.i = @ + 1,
                                  !.f.issued = Append(@, [of |-> tk.originalStates[tk.i],
                                                          call |-> c])])
       ELSE LET s1 == callService([s EXCEPT !.f.issued =
                                     Append(@, [of |-> tk.originalStates[tk.i], call |-> c])])
            IN
            IF s1.f.task.pc = "failed"
            THEN restoreFrom([s1 EXCEPT !.f.task.i = @ + 1, !.f.task.pc = "restore"])
            ELSE s1

\* a removal that empties the whole map
without_All(m, k) == [x \in {} |-> m[x]]

\* delete newState[sceneId]
without(m, k) == [x \in DOMAIN m \ {k} |-> m[x]]

\* what follows a call that has settled (task.pc "done" or "failed"), by caller:
\* callService rethrows what it caught; activateScene's catch logs the error,
\* deletes the record and returns
settle(s) ==
  LET tk == s.f.task IN
  IF tk.pc \notin {"done", "failed"} THEN s
  ELSE CASE tk.kind = "call" ->
              [s EXCEPT !.f.task = NoTask,
                        !.f.returned = IF tk.pc = "failed" THEN "rejected" ELSE "resolved"]
         [] tk.kind = "activate" ->
              [s EXCEPT !.f.task = NoTask, !.f.returned = "resolved",
                        !.f.activeScenes = IF tk.pc = "failed" THEN without(@, SceneId) ELSE @]
         [] OTHER -> restoreFrom([s EXCEPT !.f.task.i = @ + 1, !.f.task.pc = "restore"])

\* activateScene keeping the record a scene already has
captureAndCall_KeepsFirst(s) ==
  LET tk == s.f.task
      originalStates == captureEntityStates(tk.entities,
                                            getSceneEntities(getEntity(tk.entities, SceneId)))
      s1 == [s EXCEPT !.f.capturedFrom = tk.entities,
                      !.f.activeScenes =
                         IF SceneId \in DOMAIN @ THEN @
                         ELSE [x \in DOMAIN @ \cup {SceneId} |->
                                 IF x = SceneId
                                 THEN [sceneId |-> SceneId, originalStates |-> originalStates]
                                 ELSE @[x]],
                      !.f.task.pc = "capture"]
  IN settle(callService(s1))

\* activateScene issuing the scene's call without recording the snapshot
captureAndCall_NoRecord(s) ==
  LET tk == s.f.task
      s1 == [s EXCEPT !.f.capturedFrom = tk.entities, !.f.task.pc = "capture"]
  IN settle(callService(s1))

\* activateScene from captureEntityStates on: the table it reads is the one of
\* the render that created this activateScene
captureAndCall(s) ==
  LET tk == s.f.task
      originalStates == captureEntityStates(tk.entities,
                                            getSceneEntities(getEntity(tk.entities, SceneId)))
      s1 == [s EXCEPT !.f.capturedFrom = tk.entities,
                      !.f.activeScenes =
                         [x \in DOMAIN @ \cup {SceneId} |->
                            IF x = SceneId
                            THEN [sceneId |-> SceneId, originalStates |-> originalStates]
                            ELSE @[x]],
                      !.f.task.pc = "capture"]
  IN settle(callService(s1))

\* the operation a call starts, with the values of the current render
NewTask(kind) == [NoTask EXCEPT !.kind = kind, !.pc = "start", !.api = api,
                                !.uiConnected = uiConnected, !.entities = entities]

\* the transport objects as constructed
RestConstructed ==
  [connected |-> FALSE, pollingInterval |-> FALSE, entityCallbacks |-> 0,
   connectionCallbacks |-> 0, restErrorCallbacks |-> 0, lastStates |-> -1,
   restFetches |-> {}, restNotified |-> "none", restLastError |-> -1,
   restWatched |-> NoWatch, lastPoll |-> NoPoll]

WsConstructed ==
  [This EXCEPT !.socket = "null", !.connectionState = CLOSED, !.messageId = 1,
               !.pendingCommands = {}, !.stateChangedCallbacks = 0,
               !.connectionStateCallbacks = 0, !.errorCallbacks = 0,
               !.reconnectTimer = 0, !.heartbeatTimer = FALSE, !.reconnectAttempts = 0,
               !.connectPromise = "none", !.calls = [i \in 1..MaxId |-> NoCall],
               !.stateSeen = <<>>, !.lastError = "none", !.eventsSeen = FALSE,
               !.watched = NoWatch, !.discarded = <<>>, !.server = "none", !.srvReqs = {},
               !.srvSubscribed = FALSE]

\* and with the provider's three subscriptions: subscribeToConnectionState calls
\* the observer at once with the current state
RestNew ==
  [RestConstructed EXCEPT !.entityCallbacks = 1, !.connectionCallbacks = 1,
                          !.restErrorCallbacks = 1, !.restNotified = CLOSED]

WsNew ==
  [WsConstructed EXCEPT !.stateChangedCallbacks = 1, !.connectionStateCallbacks = 1,
                        !.errorCallbacks = 1, !.stateSeen = <<CLOSED>>]

NoneDelivered == [id \in {Lamp, Fan} |-> Null]

\* the ghosts of the last operation, cleared when the next one starts
Started(s, kind) ==
  [s EXCEPT !.f.task = NewTask(kind), !.f.lastInvoke = NoInvoke, !.f.issued = <<>>,
            !.f.sceneInvokes = IF kind = "none"
                                  \/ (kind = "activate" /\ SceneId \in DOMAIN s.f.activeScenes)
                               THEN @ ELSE 0,
            !.f.returned = IF kind = "none" THEN @ ELSE "pending",
            !.f.fetched = IF kind = "deactivate" THEN @ ELSE <<>>,
            !.f.capturedFrom = IF kind = "deactivate" THEN @ ELSE <<>>]

\* the push transport's connect() followed by the socket's events of a handshake
\* that succeeds, or of a connection that fails
wsConnected(t) ==
  LET t1 == onopen([connect(t) EXCEPT !.socket = "open", !.server = "hello"])
      t2 == handleMessage([t1 EXCEPT !.server = "await_auth"], "auth_required", 0, TRUE)
  IN handleMessage([t2 EXCEPT !.server = "authed"], "auth_ok", 0, TRUE)

wsRefused(t) ==
  LET t1 == connect(t) IN
  IF t1.socket = "null" THEN t1
  ELSE onclose(onerror([t1 EXCEPT !.socket = "closed"], TRUE))

\* connect() creates a new instance and setApi()s it: the instance the provider
\* held is not disconnected; it can still notify when it polls or is connected
replaced(s) ==
  IF s.f.api = "rest" /\ s.rest.connected /\ s.rest.pollingInterval /\ s.rest.entityCallbacks > 0
  THEN "rest"
  ELSE IF s.f.api = "websocket" /\ CanSend(s.ws) /\ s.ws.stateChangedCallbacks > 0
       THEN "websocket"
       ELSE s.f.earlierApi

\* HomeAssistantProvider.connect with the responses it awaits arriving with
\* nothing in between: the transport connects or not, and the fetches succeed or
\* the first of them fails
FacadeConnect ==
  /\ Idle
  /\ \E kind \in {"rest", "websocket"} : \E outcome \in {"ok", "refused", "fetch_failed"} :
     \E snapshot \in Snapshots : \E status \in RestStatuses :
       /\ outcome = "ok" => status = 0
       /\ (kind = "websocket" /\ outcome # "refused") => urlValid
       /\ kind = "websocket" => status = 0
       /\ outcome # "ok" => snapshot = CHOOSE x \in Snapshots : TRUE
       /\ LET s0 == [Started(Sys, "none") EXCEPT
                       !.f.earlierApi = replaced(Sys),
                       !.f.api = kind, !.f.error = "null", !.f.uiConnected = FALSE,
                       !.f.task = NoTask, !.rest = RestConstructed, !.ws = WsConstructed]
              s1 == IF kind = "rest"
                    THEN RestFed([s0 EXCEPT !.rest = RestNew],
                                 restConnectReturn(RestProbe(RestNew), outcome # "refused",
                                                   status))
                    ELSE WsFed([s0 EXCEPT !.ws = WsNew],
                               IF outcome # "refused" THEN wsConnected(WsProbe(WsNew))
                               ELSE wsRefused(WsProbe(WsNew)))
              s2 == CASE outcome = "ok" ->
                           [s1 EXCEPT !.f.entities = snapshot, !.f.delivered = NoneDelivered,
                                      !.f.storedConfig = kind]
                      [] outcome = "refused" ->
                           [s1 EXCEPT !.f.error = "connect_failed", !.f.uiConnected = FALSE]
                      [] kind = "rest" ->
                           [RestFed(s1, _handleApiError(RestProbe(s1.rest), status))
                              EXCEPT !.f.error = "connect_failed", !.f.uiConnected = FALSE]
                      [] OTHER ->
                           WsFed(s1, [WsProbe(s1.ws) EXCEPT !.lastError =
                                        pushReply(WsProbe(s1.ws), FALSE).lastError])
          IN SysCommit(s2)

\* HomeAssistantProvider.disconnect; what the operation in progress awaits from
\* the push transport stays pending
FacadeDisconnect ==
  /\ api # "null"
  /\ LET s1 == IF api = "rest" THEN RestFed(Sys, restDisconnect(RestProbe(RestThis)))
               ELSE WsFed(Sys, disconnect(WsProbe(This)))
     IN SysCommit([s1 EXCEPT !.f.api = "null", !.f.entities = <<>>,
                             !.f.delivered = NoneDelivered,
                             !.f.storedConfig = "null",
                             !.f.disconnectLeft = "null",
                             !.f.task.reply = IF task.api = "websocket"
                                                 /\ task.pc \in {"fetch", "invoke", "refresh",
                                                                  "states", "services"}
                                              THEN "never" ELSE @])

\* HomeAssistantProvider.disconnect without an api: nothing is done
FacadeDisconnectNoApi ==
  /\ api = "null"
  /\ SysCommit([Sys EXCEPT !.f.disconnectLeft = storedConfig])

\* the catch of HomeAssistantProvider.connect
connectFailed(s) ==
  [s EXCEPT !.f.error = "connect_failed", !.f.uiConnected = FALSE, !.f.task = NoTask,
            !.f.returned = "resolved"]

\* a fetch of connect: sent, or refused at once and caught
connectRequest(s, pc) ==
  LET s1 == apiRequest(s, pc) IN
  IF s1.f.task.pc = "failed" THEN connectFailed(s1) ELSE s1

\* a failed response to a fetch of connect
connectFailure(s, status) ==
  LET s1 == apiFailure(s, status) IN
  IF s1.f.task.pc = "failed" THEN connectFailed(s1) ELSE s1

\* HomeAssistantProvider.connect up to the first await that waits: the pull
\* adapter's connect() is a request; the push transport's handshake is taken
\* with its outcome
ConnectStart ==
  /\ Idle
  /\ \E kind \in {"rest", "websocket"} : \E accepted \in BOOLEAN :
       /\ kind = "rest" => accepted
       /\ (kind = "websocket" /\ accepted) => urlValid
       /\ LET s0 == [Started(Sys, "connect") EXCEPT
                       !.f.earlierApi = replaced(Sys),
                       !.f.api = kind, !.f.error = "null", !.f.uiConnected = FALSE,
                       !.f.task.api = kind,
                       !.rest = RestConstructed, !.ws = WsConstructed]
          IN IF kind = "rest"
             THEN SysCommit([s0 EXCEPT !.rest = [RestNew EXCEPT !.restFetches = {"connect"}],
                                       !.f.task.pc = "connect"])
             ELSE LET s1 == WsFed([s0 EXCEPT !.ws = WsNew],
                                  IF accepted THEN wsConnected(WsProbe(WsNew))
                                  ELSE wsRefused(WsProbe(WsNew)))
                  IN SysCommit(IF accepted THEN connectRequest(s1, "states")
                               ELSE connectFailed(s1))

\* the response to the pull adapter's connect()
ConnectReturn ==
  /\ task.kind = "connect" /\ task.pc = "connect" /\ "connect" \in restFetches
  /\ \E ok \in BOOLEAN : \E status \in RestStatuses :
       /\ ok => status = 0
       /\ LET r0 == [RestThis EXCEPT !.restFetches = @ \ {"connect"}]
              s1 == RestFed([Sys EXCEPT !.rest = r0],
                            restConnectReturn(RestProbe(r0), ok, status))
          IN SysCommit(IF ok THEN connectRequest(s1, "states") ELSE connectFailed(s1))

\* the response to connect's getStates()
StatesReturn ==
  /\ task.kind = "connect" /\ task.pc = "states" /\ task.reply # "never"
  /\ task.api = "websocket" => CanSend(This)
  /\ \E ok \in BOOLEAN : \E snapshot \in Snapshots : \E status \in RestStatuses :
       /\ ok => status = 0
       /\ ~ok => snapshot = CHOOSE x \in Snapshots : TRUE
       /\ task.api = "websocket" => status = 0
       /\ LET s0 == [Sys EXCEPT !.rest.restFetches = @ \ {"call"}] IN
          SysCommit(IF ok
                    THEN connectRequest([s0 EXCEPT !.f.entities = snapshot,
                                                   !.f.delivered = NoneDelivered],
                                        "services")
                    ELSE connectFailure(s0, status))

\* the response to connect's getServices(): on success the configuration is stored
ServicesReturn ==
  /\ task.kind = "connect" /\ task.pc = "services" /\ task.reply # "never"
  /\ task.api = "websocket" => CanSend(This)
  /\ \E ok \in BOOLEAN : \E status \in RestStatuses :
       /\ ok => status = 0
       /\ task.api = "websocket" => status = 0
       /\ LET s0 == [Sys EXCEPT !.rest.restFetches = @ \ {"call"}] IN
          SysCommit(IF ok
                    THEN [s0 EXCEPT !.f.storedConfig = task.api, !.f.task = NoTask,
                                    !.f.returned = "resolved"]
                    ELSE connectFailure(s0, status))

\* a change notification reaches handleEntityStateChange: from a poll of the pull
\* transport, or from an event of the push transport
ChangeDelivered ==
  /\ \/ api = "rest" /\ connected
     \/ api = "websocket" /\ CanSend(This)
  /\ \E id \in {Lamp, Fan} : \E newState \in {EntityOf(id, v) : v \in 0..(MaxVal - 1)} \cup {Null} :
       /\ entities' = handleEntityStateChange(entities, id, newState)
       /\ delivered' = IF newState = Null THEN delivered
                       ELSE [delivered EXCEPT ![id] = newState]
  /\ UNCHANGED <<wsVars, restVars, api, uiConnected, error, storedConfig, disconnectLeft,
                 earlierApi, activeScenes, task, overlapped, sceneInvokes,
                 capturedFrom, fetched, issued, lastInvoke, returned>>

\* a change notification of the replaced instance reaches handleEntityStateChange,
\* which it registered at its connect()
EarlierChangeDelivered ==
  /\ earlierApi # "null"
  /\ \E id \in {Lamp, Fan} : \E newState \in {EntityOf(id, v) : v \in 0..(MaxVal - 1)} :
       SysCommit([Sys EXCEPT !.f.entities = handleEntityStateChange(@, id, newState)])

\* a poll of the replaced pull instance fails: its _handleApiError notifies
\* handleApiError and, when it disconnects, handleConnectionStateChange
EarlierPollFailed ==
  /\ earlierApi = "rest"
  /\ \E status \in RestStatuses \ {0} :
       LET r1 == _handleApiError(RestProbe([RestNew EXCEPT !.connected = TRUE,
                                                            !.pollingInterval = TRUE]), status)
       IN SysCommit([Sys EXCEPT
            !.f.uiConnected = IF r1.restNotified = "none" THEN @
                              ELSE handleConnectionStateChange(@, r1.restNotified),
            !.f.error = IF r1.restLastError # -1 THEN "api_error" ELSE @,
            !.f.earlierApi = IF r1.connected THEN @ ELSE "null"])

\* the provider's callService called by a component
FacadeCall ==
  /\ Idle
  /\ SysCommit(settle(callService(Started(Sys, "call"))))

\* the operation in progress awaits a response at pc, and the response can come
awaiting(s, pc) ==
  /\ s.f.task.pc = pc /\ s.f.task.reply = "none"
  /\ IF s.f.task.api = "rest" THEN "call" \in s.rest.restFetches ELSE CanSend(s.ws)

\* a response to a request of the pull adapter has come: none is outstanding
\* unless the other operation awaits one
answered(s) ==
  [s EXCEPT !.rest.restFetches =
     IF s.f.overlapped.api = "rest" /\ s.f.overlapped.reply = "none"
          /\ s.f.overlapped.pc \in {"fetch", "invoke", "refresh"}
     THEN @ ELSE @ \ {"call"}]

\* what the operation in progress does with the response to api.callService(...)
invokeReturned(s, ok, status) ==
  LET s0 == answered(s) IN
  IF ok /\ (s.f.task.api = "rest" \/ pushReply(s.ws, TRUE).calls[1].st = "resolved")
  THEN settle(afterCallService(s0))
  ELSE IF ok THEN [s0 EXCEPT !.f.task.reply = "never"]
  ELSE LET s1 == apiFailure(s0, status) IN
       settle(IF s1.f.task.pc = "failed" THEN setError(s1, "call_failed") ELSE s1)

\* the transport's response to api.callService(...)
InvokeReturn ==
  /\ awaiting(Sys, "invoke")
  /\ \E ok \in BOOLEAN : \E status \in RestStatuses :
       /\ (ok \/ task.api = "websocket") => status = 0
       /\ SysCommit(invokeReturned(Sys, ok, status))

\* the transport's response to the getStates() of callService's extra fetch
RefreshReturn ==
  /\ task.pc = "refresh" /\ task.reply = "none"
  /\ IF task.api = "rest" THEN "call" \in restFetches ELSE CanSend(This)
  /\ \E ok \in BOOLEAN : \E snapshot \in Snapshots : \E status \in RestStatuses :
       /\ (ok \/ task.api = "websocket") => status = 0
       /\ ~ok => snapshot = CHOOSE x \in Snapshots : TRUE
       /\ LET s0 == [Sys EXCEPT !.rest.restFetches = @ \ {"call"}] IN
          IF ok /\ (task.api = "rest" \/ pushReply(This, TRUE).calls[1].st = "resolved")
          THEN SysCommit(settle([s0 EXCEPT !.f.entities = snapshot,
                                          !.f.delivered = NoneDelivered,
                                          !.f.lastInvoke.refreshed = TRUE,
                                          !.f.task.pc = "done"]))
          ELSE IF ok THEN SysCommit([s0 EXCEPT !.f.task.reply = "never"])
          ELSE LET s1 == apiFailure(s0, status) IN
               SysCommit(settle(IF s1.f.task.pc = "failed" THEN setError(s1, "call_failed")
                                ELSE s1))

\* isSceneActive counting a record only when its snapshot has entries
isSceneActive_NonEmpty(scenes, sceneId) ==
  sceneId \in DOMAIN scenes /\ scenes[sceneId].originalStates # <<>>

\* isSceneActive: !!activeScenes[sceneId]
isSceneActive(scenes, sceneId) == sceneId \in DOMAIN scenes

\* activateScene recording the scene before it fetches
activateScene_RecordsFirst(s0) ==
  IF getEntity(s0.f.entities, SceneId) = Null
  THEN settle([s0 EXCEPT !.f.task.pc = "failed"])
  ELSE LET s1 == refreshEntities(
                   [s0 EXCEPT !.f.activeScenes =
                      [x \in DOMAIN @ \cup {SceneId} |->
                         IF x = SceneId
                         THEN [sceneId |-> SceneId, originalStates |-> <<>>]
                         ELSE @[x]]], "fetch") IN
       IF s1.f.task.pc = "skipped" THEN captureAndCall(s1) ELSE settle(s1)

\* activateScene up to its first await that waits
activateScene(s0) ==
  IF getEntity(s0.f.entities, SceneId) = Null
  THEN settle([s0 EXCEPT !.f.task.pc = "failed"])
  ELSE LET s1 == refreshEntities(s0, "fetch") IN
       IF s1.f.task.pc = "skipped" THEN captureAndCall(s1) ELSE settle(s1)

\* activateScene called with no operation in progress
ActivateStart ==
  /\ Idle
  /\ SysCommit(activateScene(Started(Sys, "activate")))

\* what activateScene does with the response to the getStates() it forced
fetchReturned(s, ok, snapshot, status) ==
  LET s0 == answered(s) IN
  IF ok /\ (s.f.task.api = "rest" \/ pushReply(s.ws, TRUE).calls[1].st = "resolved")
  THEN captureAndCall([s0 EXCEPT !.f.entities = snapshot, !.f.delivered = NoneDelivered,
                                 !.f.fetched = snapshot])
  ELSE IF ok THEN [s0 EXCEPT !.f.task.reply = "never"]
  ELSE LET s1 == apiFailure(s0, status) IN
       settle(IF s1.f.task.pc = "failed" THEN setError(s1, "refresh_failed") ELSE s1)

\* the transport's response to the getStates() that activateScene forced
FetchReturn ==
  /\ awaiting(Sys, "fetch")
  /\ \E ok \in BOOLEAN : \E snapshot \in Snapshots : \E status \in RestStatuses :
       /\ (ok \/ task.api = "websocket") => status = 0
       /\ ~ok => snapshot = CHOOSE x \in Snapshots : TRUE
       /\ SysCommit(fetchReturned(Sys, ok, snapshot, status))

\* deactivateScene up to its first await that waits
deactivateScene(s0) ==
  IF SceneId \notin DOMAIN s0.f.activeScenes
  THEN [s0 EXCEPT !.f.task = NoTask, !.f.returned = "resolved"]
  ELSE restoreFrom([s0 EXCEPT
                      !.f.task.originalStates = s0.f.activeScenes[SceneId].originalStates,
                      !.f.task.i = 1, !.f.task.pc = "restore",
                      !.f.activeScenes = without(@, SceneId)])

\* deactivateScene called with no operation in progress
DeactivateStart ==
  /\ Idle
  /\ SysCommit(deactivateScene(Started(Sys, "deactivate")))

\* toggleScene: deactivateScene when the scene is active, else activateScene
ToggleScene ==
  IF isSceneActive(activeScenes, SceneId) THEN DeactivateStart ELSE ActivateStart

\* toggleScene called while an activateScene awaits a response: the operation in
\* progress goes on beside the one this call starts
ToggleOverlapping ==
  /\ task.kind = "activate" /\ task.pc \in {"fetch", "invoke"} /\ task.reply = "none"
  /\ overlapped = NoTask
  /\ IF isSceneActive(activeScenes, SceneId)
     THEN SysCommit(deactivateScene([Sys EXCEPT !.f.overlapped = task,
                                                !.f.task = NewTask("deactivate"),
                                                !.f.issued = <<>>,
                                                !.f.returned = "pending"]))
     ELSE SysCommit(activateScene([Sys EXCEPT !.f.overlapped = task,
                                              !.f.task = NewTask("activate"),
                                              !.f.returned = "pending"]))

\* the two operations told apart the other way round
Swapped(s) == [s EXCEPT !.f.task = s.f.overlapped, !.f.overlapped = s.f.task]

\* the response to the getStates() of the operation that was in progress first
OverlappedFetchReturn ==
  /\ awaiting(Swapped(Sys), "fetch")
  /\ \E ok \in BOOLEAN : \E snapshot \in Snapshots : \E status \in RestStatuses :
       /\ (ok \/ overlapped.api = "websocket") => status = 0
       /\ ~ok => snapshot = CHOOSE x \in Snapshots : TRUE
       /\ SysCommit(Swapped(fetchReturned(Swapped(Sys), ok, snapshot, status)))

\* the response to the callService of the operation that was in progress first
OverlappedInvokeReturn ==
  /\ awaiting(Swapped(Sys), "invoke")
  /\ \E ok \in BOOLEAN : \E status \in RestStatuses :
       /\ (ok \/ overlapped.api = "websocket") => status = 0
       /\ SysCommit(Swapped(invokeReturned(Swapped(Sys), ok, status)))

\* the providers as mounted
FacadeInit ==
  /\ api = "null"
  /\ uiConnected = FALSE
  /\ error = "null"
  /\ storedConfig = "null"
  /\ disconnectLeft = "none"
  /\ entities = <<>>
  /\ activeScenes = <<>>
  /\ task = NoTask
  /\ overlapped = NoTask
  /\ sceneInvokes = 0
  /\ earlierApi = "null"
  /\ capturedFrom = <<>>
  /\ fetched = <<>>
  /\ issued = <<>>
  /\ lastInvoke = NoInvoke
  /\ delivered = NoneDelivered
  /\ returned = "none"

Init == WsInit /\ RestInit /\ FacadeInit

\* Entities of any kind the controller can report: the domains deactivateScene
\* tells apart and one it does not, the states it tests and one it does not, and
\* any of the attributes capture and restoration read, with one they do not.
Domains == {"light", "switch", "input_boolean", "cover", "media_player"}
States == {"on", "off", "open", "opening", "closed", "unavailable"}
AttributeNames == {"brightness", "color_temp", "rgb_color", "current_position", "friendly_name"}

AnyEntities ==
  {Entity(Id(d, "x"), st, Attributes(names)) :
     d \in Domains, st \in States, names \in SUBSET AttributeNames}

SceneOf(members) == [SceneEntity EXCEPT !.attributes.entities = members]

\* a scene with an empty member list, a scene without the entities attribute,
\* and a table that lacks the scene
EdgeTables ==
  {<<SceneOf(<<>>), EntityOf(Lamp, v)>> : v \in 0..(MaxVal - 1)}
    \cup {<<[SceneEntity EXCEPT !.attributes = NoAttributes], EntityOf(Lamp, v)>> :
            v \in 0..(MaxVal - 1)}
    \cup {<<EntityOf(Lamp, v), EntityOf(Fan, w)>> : v, w \in 0..(MaxVal - 1)}

\* Tables getStates() can have returned at connect: the scene with light.lamp and
\* switch.fan, or a scene of one entity of any kind and one the table lacks
AnyTables ==
  {<<SceneEntity, EntityOf(Lamp, v), EntityOf(Fan, w)>> : v, w \in 0..(MaxVal - 1)}
    \cup {<<SceneOf(<<e.entity_id, Lamp>>), e>> : e \in AnyEntities}
    \cup EdgeTables

\* the providers connected over the pull transport, the table as fetched
\* the records when only the other scene is active, with a one-entry snapshot
OtherActive ==
  [x \in {OtherScene} |->
     [sceneId |-> OtherScene,
      originalStates |-> <<[entityId |-> Fan, state |-> "on", attributes |-> NoAttributes]>>]]

InitRestore ==
  /\ WsInit
  /\ connected = TRUE
  /\ pollingInterval = TRUE
  /\ entityCallbacks = 1
  /\ connectionCallbacks = 1
  /\ restErrorCallbacks = 1
  /\ lastStates = -1
  /\ restFetches = {"poll"}
  /\ restNotified = CONNECTED
  /\ restLastError = -1
  /\ restWatched = NoWatch
  /\ lastPoll = NoPoll
  /\ restDisconnects = 0
  /\ api = "rest"
  /\ uiConnected = TRUE
  /\ error = "null"
  /\ storedConfig = "rest"
  /\ disconnectLeft = "none"
  /\ entities \in AnyTables
  /\ activeScenes \in {<<>>, OtherActive}
  /\ task = NoTask
  /\ overlapped = NoTask
  /\ sceneInvokes = 0
  /\ earlierApi = "null"
  /\ capturedFrom = <<>>
  /\ fetched = <<>>
  /\ issued = <<>>
  /\ lastInvoke = NoInvoke
  /\ delivered = NoneDelivered
  /\ returned = "none"

\* ------------------------------------------------------- specifications
\* The connection state machine: connect / disconnect, the socket's and the timer's
\* events, the handshake, and the two observers of it.  Commands and pings read the
\* connection state and write only messageId, pendingCommands and the socket's
\* output, so they are left to SpecCalls.
Next ==
  \/ Connect
  \/ Disconnect
  \/ SubscribeConnectionState
  \/ SubscribeError
  \/ SocketOpen
  \/ SocketClose
  \/ DiscardedClose
  \/ ReconnectTimerFire
  \/ ServerAuthRequired
  \/ ServerAuthOk
  \/ ServerAuthInvalid

Spec == Init /\ [][Next]_vars

\* The connection state machine with request / reply correlation, change listeners,
\* the heartbeat's pings and the error observer.
NextCalls ==
  \/ Connect
  \/ Disconnect
  \/ Invoke
  \/ SubscribeEntities
  \/ SubscribeError
  \/ SocketOpen
  \/ SocketClose
  \/ DiscardedClose
  \/ ReconnectTimerFire
  \/ HeartbeatTick
  \/ ServerAuthRequired
  \/ ServerAuthOk
  \/ ServerAuthInvalid
  \/ ServerResult
  \/ ServerEvent

SpecCalls == Init /\ [][NextCalls]_vars

\* The pull transport (RestApiAdapter) with its requests, its poll loop and its
\* observers.
NextPull ==
  \/ RestConnect
  \/ RestConnectReturn
  \/ RestDisconnect
  \/ RestSubscribeToEntities
  \/ RestSubscribeToConnectionState
  \/ RestSubscribeToErrors
  \/ RestPollTick
  \/ RestPollReturn
  \/ RestCall
  \/ RestCallReturn

SpecPull == Init /\ [][NextPull]_vars

\* The two transports side by side: the push transport's connection state machine
\* and the pull transport's connection and poll loop, without the observers.
NextAdapters ==
  \/ Connect
  \/ Disconnect
  \/ SocketOpen
  \/ SocketClose
  \/ DiscardedClose
  \/ ReconnectTimerFire
  \/ ServerAuthRequired
  \/ ServerAuthOk
  \/ ServerAuthInvalid
  \/ RestConnect
  \/ RestConnectReturn
  \/ RestDisconnect
  \/ RestSubscribeToEntities
  \/ RestPollTick
  \/ RestPollReturn

SpecAdapters == Init /\ [][NextAdapters]_vars

\* Change listeners of both transports, with and without an id list.
NextListeners ==
  \/ Connect
  \/ SocketOpen
  \/ ServerAuthRequired
  \/ ServerAuthOk
  \/ SubscribeEntities
  \/ SubscribeEntitiesFor
  \/ ServerResult
  \/ ServerEvent
  \/ RestConnect
  \/ RestConnectReturn
  \/ RestSubscribeToEntities
  \/ RestSubscribeToEntitiesFor
  \/ RestPollTick
  \/ RestPollReturn

SpecListeners == Init /\ [][NextListeners]_vars

\* The connection-state observers of both transports over every connection state.
NextObservers ==
  \/ Connect
  \/ Disconnect
  \/ SubscribeConnectionState
  \/ SocketOpen
  \/ SocketClose
  \/ ReconnectTimerFire
  \/ ServerAuthRequired
  \/ ServerAuthOk
  \/ ServerAuthInvalid
  \/ RestConnect
  \/ RestConnectReturn
  \/ RestDisconnect
  \/ RestSubscribeToConnectionState

SpecObservers == Init /\ [][NextObservers]_vars

\* Scene operations that overlap: a toggleScene called while an activateScene
\* awaits a response, from the providers connected over the pull transport.
InitOverlap ==
  /\ WsInit
  /\ connected = TRUE
  /\ pollingInterval = TRUE
  /\ entityCallbacks = 1
  /\ connectionCallbacks = 1
  /\ restErrorCallbacks = 1
  /\ lastStates = -1
  /\ restFetches = {"poll"}
  /\ restNotified = CONNECTED
  /\ restLastError = -1
  /\ restWatched = NoWatch
  /\ lastPoll = NoPoll
  /\ restDisconnects = 0
  /\ api = "rest"
  /\ uiConnected = TRUE
  /\ error = "null"
  /\ storedConfig = "rest"
  /\ disconnectLeft = "none"
  /\ entities \in Snapshots
  /\ activeScenes = <<>>
  /\ task = NoTask
  /\ overlapped = NoTask
  /\ sceneInvokes = 0
  /\ earlierApi = "null"
  /\ capturedFrom = <<>>
  /\ fetched = <<>>
  /\ issued = <<>>
  /\ lastInvoke = NoInvoke
  /\ delivered = NoneDelivered
  /\ returned = "none"

NextOverlap ==
  \/ ToggleScene
  \/ FetchReturn
  \/ InvokeReturn
  \/ ToggleOverlapping
  \/ OverlappedFetchReturn
  \/ OverlappedInvokeReturn

SpecOverlap == InitOverlap /\ [][NextOverlap]_vars

\* The provider's connect called again and again, with what the replaced
\* instance still notifies.
NextReplace ==
  \/ FacadeConnect
  \/ FacadeDisconnect
  \/ ChangeDelivered
  \/ EarlierChangeDelivered
  \/ EarlierPollFailed

SpecReplace == Init /\ [][NextReplace]_vars

\* The provider's connect, response by response, and its disconnect.
NextResume ==
  \/ ConnectStart
  \/ ConnectReturn
  \/ StatesReturn
  \/ ServicesReturn
  \/ FacadeDisconnect
  \/ FacadeDisconnectNoApi

SpecResume == Init /\ [][NextResume]_vars

\* The providers over one transport instance of either kind: connect, disconnect,
\* change notifications, service calls and the scene operations.
NextFacade ==
  \/ FacadeConnect
  \/ FacadeDisconnect
  \/ FacadeCall
  \/ InvokeReturn
  \/ RefreshReturn
  \/ ActivateStart
  \/ FetchReturn
  \/ DeactivateStart

SpecFacade == Init /\ [][NextFacade]_vars

\* Activate and Deactivate over a connected pull transport, for scenes of
\* entities of any kind.
NextRestore ==
  \/ ActivateStart
  \/ FetchReturn
  \/ InvokeReturn
  \/ DeactivateStart
  \/ ToggleScene

SpecRestore == InitRestore /\ [][NextRestore]_vars

\* The entity table under change notifications.
NextTable ==
  \/ FacadeConnect
  \/ FacadeDisconnect
  \/ ChangeDelivered

SpecTable == Init /\ [][NextTable]_vars


\* ================================================================ claims

\* C1: when auth_invalid is received during the handshake of a connect() call, the
\* connection state becomes Error and that call's promise is rejected with the
\* authentication error.
C1_AuthInvalidRejects ==
  [][ServerAuthInvalid =>
        (connectionState' = ERROR /\ connectPromise' = "rejected_auth")]_vars

C1_Witness ==
  authRejected /\ connectionState = ERROR /\ connectPromise = "rejected_auth"

\* C2: after the caller's disconnect() the state is Closed and stays Closed, with no
\* reconnect timer armed and no socket opened, until the caller calls connect(); also
\* once the close event of the socket that disconnect() closed has been delivered.
C2_StaysClosed ==
  lastCallerOp = "disconnect" =>
    (connectionState = CLOSED /\ reconnectTimer = 0 /\ socket = "null")

\* C8: with no further caller connect(), the automatic reconnection attempts made
\* without reaching Connected number at most maxReconnectAttempts, also when each
\* attempt's socket opens and is then closed by the server.
C8_AttemptsBounded == autoAttempts <= maxReconnectAttempts

\* C9: after auth_invalid the state remains Error and no reconnection is scheduled,
\* also when the server then closes the socket, until the caller acts.
C9_ErrorTerminal ==
  authRejected => (connectionState = ERROR /\ reconnectTimer = 0)

NotifiedAfter(x) ==
  CASE x = CONNECTED -> {CLOSED, ERROR}
    [] x = CLOSED -> {RECONNECTING, ERROR}
    [] x = RECONNECTING -> {CONNECTING}
    [] x = CONNECTING -> {AUTHENTICATING, ERROR, CLOSED}
    [] x = AUTHENTICATING -> {CONNECTED, ERROR, CLOSED}
    [] x = ERROR -> {CLOSED}

C3_DisconnectCancels ==
  lastCallerOp = "disconnect" =>
    (pendingCommands = {} /\ \A id \in DOMAIN calls : calls[id].st # "pending")

\* C4: a call answered with a result whose success flag is false has its promise
\* rejected.
C4_FailedResultRejects ==
  \A id \in DOMAIN calls : calls[id].reply = "fail" => calls[id].st = "rejected"

\* C5: whenever the transport is Connected with a change listener registered, a
\* state_changed subscription has been sent on the current connection.
C5_ListenersRearmed ==
  (connectionState = CONNECTED /\ stateChangedCallbacks > 0) => srvSubscribed

\* C6: a failed call's error reaches the registered error observer exactly when the
\* call's promise is rejected: no call is refused without the observer being told, and
\* none is reported to the observer without its promise being rejected.
C6_ErrorsNeverSwallowed ==
  /\ lastRefused # "silent"
  /\ \A id \in DOMAIN calls : calls[id].notified <=> (calls[id].st = "rejected")

\* C11: a promise returned by connect() resolves only when the connection state is
\* Connected: both the promise of the call that opened the socket and the promise
\* of a call made while an earlier handshake is still under way.
C11_ResolvesOnlyWhenUsable ==
  [][/\ (Connect /\ connectResolvesAtOnce(This)) => connectionState = CONNECTED
     /\ (connectPromise # "resolved" /\ connectPromise' = "resolved")
          => connectionState' = CONNECTED]_vars

\* C12: disconnect() leaves the connection state Closed, on either transport and
\* from any state, so two calls in a row give Closed after the first and after
\* the second.
C12_DisconnectIdempotent ==
  [][/\ Disconnect => (connectionState' = CLOSED /\ socket' = "null")
     /\ RestDisconnect => (~connected' /\ getConnectionState(RestThis)' = CLOSED)]_vars

\* both transports have been disconnected twice in a row (the push transport's
\* second disconnect() finds the state the first one left)
C12_Witness ==
  /\ restDisconnects = 2 /\ ~connected /\ lastStates # -1
  /\ lastCallerOp = "disconnect" /\ connectionState = CLOSED /\ Len(discarded) > 0
  /\ ENABLED Disconnect

\* C13: after any sequence of change notifications, the table holds at most one
\* entry for each entity id, and the entry of an id is the entity of the latest
\* notification delivered for that id (last-write-wins by arrival order).
C13_LastWriteWins ==
  \A id \in {SceneId, Lamp, Fan} :
    /\ Cardinality({i \in 1..Len(entities) : entities[i].entity_id = id}) <= 1
    /\ (id \in DOMAIN delivered /\ delivered[id] # Null) =>
          \E i \in 1..Len(entities) : entities[i] = delivered[id]

\* notifications for both members have arrived, replacing entries of a fetched
\* table, the lamp's with a value other than the one fetched
C13_Witness ==
  /\ Len(entities) = 3
  /\ delivered[Lamp] = EntityOf(Lamp, MaxVal - 1)
  /\ delivered[Fan] = EntityOf(Fan, 0)
  /\ entities[2] = delivered[Lamp]

\* C14: a facade callService that succeeded over the pull transport while it was
\* connected has fetched all states again and replaced the table before it
\* completed; over the push transport it has issued no extra fetch.
C14_PullRefreshesAfterInvoke ==
  (lastInvoke.kind = "call" /\ lastInvoke.ok /\ task.kind = "none") =>
     /\ (lastInvoke.api = "rest" /\ lastInvoke.transport = CONNECTED) => lastInvoke.refreshed
     /\ lastInvoke.api = "websocket" => ~lastInvoke.refreshed

\* C15: the snapshot Activate stores holds, for every member, the state and
\* attributes the member has in the result of the fetch this Activate forced.
C15_CapturesFetched ==
  (fetched # <<>> /\ SceneId \in DOMAIN activeScenes) =>
     activeScenes[SceneId].originalStates = captureEntityStates(fetched, SceneMembers)

\* C16: once an Activate whose scene.turn_on invocation failed can run no
\* further, the record it created is gone, the scene is inactive and the error
\* is set.
C16_FailedActivationDiscarded ==
  (lastInvoke.kind = "activate" /\ ~lastInvoke.ok /\ Idle) =>
     (SceneId \notin DOMAIN activeScenes /\ error # "null")

\* C17: once a Deactivate that has started restoring over the transport the
\* provider holds can run no further, it has issued the restoration call of every
\* captured entity and has completed, whichever of the calls failed.
C17_RestoresEachIndependently ==
  (issued # <<>> /\ Idle /\ api # "null") =>
     (Len(issued) = Len(SceneMembers) /\ task.kind = "none")

\* the scene's member list in the table Activate captured from, and the snapshot
\* the scene's record holds
CapturedMembers ==
  IF getEntity(capturedFrom, SceneId) = Null THEN <<>>
  ELSE getSceneEntities(getEntity(capturedFrom, SceneId))

ScenarioC ==
  /\ CapturedMembers = <<Lamp, Fan>>
  /\ getEntity(capturedFrom, Lamp) =
       Entity(Lamp, "on", [a \in {"brightness", "friendly_name"} |->
                             IF a = "brightness" THEN 180 ELSE 1])
  /\ getEntity(capturedFrom, Fan) # Null
  /\ getEntity(capturedFrom, Fan).state = "off"

C19_RoundTripRestoresOff ==
  (fetched # <<>> /\ \A m \in {Lamp, Fan} : getEntity(fetched, m).state = "off") =>
     \A k \in 1..Len(issued) : issued[k].call.service \in {"turn_off", "close_cover"}

\* C20: what Deactivate does for a captured entity is the inverse call of its
\* domain and captured state and nothing else: a light that was on, turn_on with
\* a transition and exactly the captured ones of brightness, color_temp and
\* rgb_color; any other light, turn_off with the transition; a switch or
\* input_boolean, turn_on if on and turn_off otherwise; a cover that was open or
\* opening, set_cover_position with the captured position; any other cover,
\* close_cover; any other domain, turn_on if on, turn_off if off, else no call.
C20_InverseCall ==
  \A k \in 1..Len(issued) :
    LET e == issued[k].of
        c == issued[k].call
        d == e.entityId.domain
        targets == c.domain = d /\ c.entity_id = e.entityId
    IN
    /\ (d = "light" /\ e.state = "on") =>
          /\ targets /\ c.service = "turn_on"
          /\ DOMAIN c.data = {"transition"} \cup
                 (DOMAIN e.attributes \cap {"brightness", "color_temp", "rgb_color"})
          /\ \A a \in DOMAIN c.data \ {"transition"} : c.data[a] = e.attributes[a]
    /\ (d = "light" /\ e.state # "on") =>
          targets /\ c.service = "turn_off" /\ DOMAIN c.data = {"transition"}
    /\ (d \in {"switch", "input_boolean"}) =>
          /\ targets /\ DOMAIN c.data = {}
          /\ c.service = (IF e.state = "on" THEN "turn_on" ELSE "turn_off")
    /\ (d = "cover" /\ e.state \in {"open", "opening"}) =>
          /\ targets /\ c.service = "set_cover_position"
          /\ DOMAIN c.data \subseteq {"position"}
          /\ "current_position" \in DOMAIN e.attributes =>
                ("position" \in DOMAIN c.data
                   /\ c.data["position"] = e.attributes["current_position"])
    /\ (d = "cover" /\ e.state \notin {"open", "opening"}) =>
          targets /\ c.service = "close_cover" /\ DOMAIN c.data = {}
    /\ (d \notin {"light", "switch", "input_boolean", "cover"}) =>
          CASE e.state = "on" -> targets /\ c.service = "turn_on" /\ DOMAIN c.data = {}
            [] e.state = "off" -> targets /\ c.service = "turn_off" /\ DOMAIN c.data = {}
            [] OTHER -> c.service = "none"

\* Deactivate has come to a light captured on with brightness and rgb_color and
\* without color_temp, and then to a member the table lacked
C20_Witness ==
  /\ Len(issued) = 2
  /\ issued[1].of.entityId.domain = "light"
  /\ issued[1].of.state = "on"
  /\ DOMAIN issued[1].of.attributes = {"brightness", "rgb_color"}
  /\ issued[1].call.service = "turn_on"
  /\ issued[2].of.state = "unknown"

\* C21: a toggle of an active scene whose record has an empty snapshot removes
\* the record, issues no restoration call and completes in that step; a toggle
\* of an inactive scene starts the activation, and an activation of a scene with
\* no members that completes leaves a record with an empty snapshot, which
\* counts as active.
C21_EmptySceneToggles ==
  [][/\ (ToggleScene /\ SceneId \in DOMAIN activeScenes
           /\ activeScenes[SceneId].originalStates = <<>>) =>
          (SceneId \notin DOMAIN activeScenes' /\ issued' = <<>> /\ task'.kind = "none")
     /\ (ToggleScene /\ SceneId \notin DOMAIN activeScenes
           /\ getEntity(entities, SceneId) # Null) => task'.kind = "activate"
     /\ (task.kind = "activate" /\ task.pc = "invoke" /\ task'.kind = "none"
           /\ lastInvoke'.ok /\ capturedFrom # <<>> /\ CapturedMembers = <<>>) =>
          (/\ SceneId \in DOMAIN activeScenes'
           /\ activeScenes'[SceneId].originalStates = <<>>
           /\ isSceneActive(activeScenes', SceneId))]_vars

\* a scene with no members has been activated, and the toggle that deactivates
\* it can be taken
C21_Witness ==
  /\ capturedFrom # <<>> /\ CapturedMembers = <<>>
  /\ isSceneActive(activeScenes, SceneId)
  /\ activeScenes[SceneId].originalStates = <<>>
  /\ task.kind = "none" /\ lastInvoke.ok
  /\ ENABLED ToggleScene

\* C22: an Activate of a scene id the table lacks rejects towards its caller,
\* leaves no record for the id, and issues neither a fetch nor the scene.turn_on
\* call.
C22_AbsentSceneNotFound ==
  [][(ActivateStart /\ getEntity(entities, SceneId) = Null) =>
        /\ returned' = "rejected"
        /\ SceneId \notin DOMAIN activeScenes'
        /\ task'.kind = "none"
        /\ restFetches' = restFetches /\ messageId' = messageId
        /\ fetched' = <<>> /\ lastInvoke' = NoInvoke]_vars

\* C23: a change listener registered with an id list is invoked only for changes
\* of entities in the list, on either transport.
C23_FilteredListener ==
  /\ watched.heard \subseteq watched.filter
  /\ restWatched.heard \subseteq restWatched.filter

\* C24: after disconnect() on the pull transport, until connect() is called again,
\* no poll is started and no change listener is notified, not even by the
\* response to a poll that was outstanding at disconnect(); a poll is only ever
\* started with a listener registered and the transport connected.
C24_DisconnectStopsPolling ==
  [][/\ (RestDisconnect => ~pollingInterval')
     /\ ("poll" \notin restFetches /\ "poll" \in restFetches') =>
          (connected' /\ entityCallbacks' > 0)
     /\ (RestPollReturn /\ ~connected /\ "connect" \notin restFetches) =>
          lastPoll'.heard = 0]_vars

\* C25: a poll that reports the value last observed for an entity notifies no
\* change listener (so the second of two identical polls notifies none); a poll
\* that reports a different value notifies every change listener exactly once.
C25_PollNotifiesOnChange ==
  [][\A value \in 0..(MaxVal - 1) :
       (RestPollReturn /\ lastPoll'.ok /\ lastStates' = value) =>
         /\ lastStates = value => lastPoll'.heard = 0
         /\ lastStates # value => lastPoll'.heard = entityCallbacks]_vars

\* the second of two polls with the same value has been handled with a listener registered
C25_Witness ==
  /\ lastPoll.handled /\ lastPoll.ok /\ lastPoll.heard = 0
  /\ entityCallbacks > 0 /\ lastStates = 1

\* C26: a failed poll is given to the error observers; a 401 disconnects the
\* transport (Closed, poll loop stopped); any other failure leaves the connection
\* and the poll loop as they were, and the next interval tick polls again.
C26_PollFailureClassified ==
  [][/\ (RestPollReturn /\ lastPoll'.handled /\ ~lastPoll'.ok) =>
          /\ restErrorCallbacks > 0 => restLastError' = lastPoll'.status
          /\ lastPoll'.status = 401 =>
               /\ ~connected' /\ ~pollingInterval'
               /\ getConnectionState(RestThis)' = CLOSED
               /\ connectionCallbacks > 0 => restNotified' = CLOSED
          /\ lastPoll'.status # 401 =>
               /\ connected' = connected
               /\ pollingInterval' = pollingInterval
               /\ entityCallbacks' = entityCallbacks
     /\ (RestPollTick /\ connected /\ entityCallbacks > 0) => "poll" \in restFetches']_vars

\* after a poll failed with a 500 the transport is connected and the next poll is out
C26_Witness ==
  /\ lastPoll.handled /\ ~lastPoll.ok /\ lastPoll.status = 500 /\ lastPoll.connected
  /\ restLastError = 500
  /\ connected /\ pollingInterval /\ "poll" \in restFetches

\* C27: subscribeToConnectionState(listener) calls the listener once, at
\* registration, with the state the transport's connection-state query returns
\* at that moment, whatever that state is, on either transport.
C27_ObserverToldAtRegistration ==
  [][/\ SubscribeConnectionState => stateSeen' = <<wsGetConnectionState(This)>>
     /\ RestSubscribeToConnectionState => restNotified' = getConnectionState(RestThis)]_vars

\* an observer registered while the push transport was reconnecting, another on
\* the pull transport while it was not connected
C27_Witness ==
  /\ connectionStateCallbacks > 0 /\ stateSeen = <<RECONNECTING>>
  /\ connectionCallbacks > 0 /\ restNotified = CLOSED /\ ~connected /\ restFetches = {}

\* C28: deactivateScene for a scene without a record changes no record and issues
\* no call; for a scene with a record, the record is gone by the time the first
\* restoring call is out, and the records of other scenes are as they were.
C28_DeactivateFrame ==
  [][/\ (DeactivateStart /\ SceneId \notin DOMAIN activeScenes) =>
          /\ activeScenes' = activeScenes
          /\ issued' = <<>> /\ task'.kind = "none" /\ returned' = "resolved"
          /\ restFetches' = restFetches /\ messageId' = messageId
     /\ (DeactivateStart /\ SceneId \in DOMAIN activeScenes) =>
          /\ SceneId \notin DOMAIN activeScenes'
          /\ ~isSceneActive(activeScenes', SceneId)
          /\ \A x \in DOMAIN activeScenes \ {SceneId} :
               x \in DOMAIN activeScenes' /\ activeScenes'[x] = activeScenes[x]
     /\ (task'.kind = "deactivate") => SceneId \notin DOMAIN activeScenes']_vars

\* a restoring call of SceneId is outstanding, its record is gone and the other
\* scene's record is in place
C28_Witness ==
  /\ task.kind = "deactivate" /\ task.pc = "invoke"
  /\ \E k \in 1..Len(issued) : issued[k].call # Skip
  /\ SceneId \notin DOMAIN activeScenes
  /\ OtherScene \in DOMAIN activeScenes /\ activeScenes = OtherActive

\* C29: the provider's connect stores the configuration only once the transport's
\* connect, the first getStates() and getServices() have all succeeded; a connect
\* that fails leaves what is stored as it was; the provider's disconnect() leaves
\* nothing stored.
C29_PersistAfterSuccess ==
  [][/\ (storedConfig' # storedConfig /\ storedConfig' # "null") =>
          (task.kind = "connect" /\ task.pc = "services" /\ storedConfig' = task.api
             /\ error' = error)
     /\ (task.kind = "connect" /\ task'.kind = "none" /\ error' = "connect_failed") =>
          storedConfig' = storedConfig
     /\ disconnectLeft' \in {"none", "null"}]_vars

C32_IdsIncrease ==
  [][/\ messageId' \in {messageId, messageId + 1}
     /\ \A id \in 1..MaxId :
          (calls[id].st = "unused" /\ calls'[id].st # "unused") =>
             (id = messageId /\ messageId' = id + 1
                /\ \A earlier \in 1..(id - 1) : calls[earlier].st # "unused")
     /\ \A id \in 1..MaxId : calls[id].st # "unused" => calls'[id].st # "unused"
     /\ messageId' = messageId + 1 => calls'[messageId].st \in {"pending", "ping"}
     /\ ((Invoke \/ SubscribeEntities) /\ ~CanSend(This)) =>
          (messageId' = messageId /\ pendingCommands' = pendingCommands)]_vars

\* id 1 was sent on an earlier connection and is still pending; id 2 went out on
\* the connection that followed
C32_Witness ==
  /\ calls[1].st = "pending" /\ calls[1].reply = "none" /\ 1 \notin srvReqs
  /\ calls[2].st = "pending" /\ 2 \in srvReqs
  /\ messageId = 3

\* C33: the timer armed for the k-th automatic attempt in a row (k - 1 timer-started
\* attempts since a socket last opened) waits 1000, 2000, 4000, 8000, 16000 ms for
\* k = 1..5 and nothing else; the attempt counter is 0 after a socket opened.
C33_BackoffDelays ==
  [][/\ reconnectTimer' # 0 =>
          /\ attemptsSinceOpen' < 5
          /\ reconnectTimer' = <<1000, 2000, 4000, 8000, 16000>>[attemptsSinceOpen' + 1]
     /\ SocketOpen => reconnectAttempts' = 0]_vars

\* the timer for the fifth attempt in a row is armed
C33_Witness ==
  /\ attemptsSinceOpen = 4 /\ reconnectAttempts = 4
  /\ connectionState = RECONNECTING /\ reconnectTimer = 16000

\* C34: a toggleScene called while the toggleScene that found the scene inactive
\* still awaits the fetch of its activation, and no activation has recorded the
\* scene since, finds the scene not recorded as active, and so starts a second
\* activation beside the first instead of a deactivation
C34_OverlappingTogglesBothActivate ==
  [][(ToggleOverlapping /\ task.pc = "fetch" /\ sceneInvokes = 0) =>
       /\ ~isSceneActive(activeScenes, SceneId)
       /\ task'.kind = "activate"
       /\ issued' = issued]_vars

\* both toggles have returned, the scene's turn_on was sent twice, and the scene
\* is recorded as active
C34_Witness ==
  /\ sceneInvokes = 2 /\ task = NoTask /\ overlapped = NoTask
  /\ isSceneActive(activeScenes, SceneId)
  /\ returned = "resolved" /\ lastInvoke.ok /\ lastInvoke.kind = "activate"

\* C35: whenever the push transport is Connected, its heartbeat timer is armed
\* and no reconnect timer is pending
C35_ConnectedTimers ==
  connectionState = CONNECTED => (heartbeatTimer /\ reconnectTimer = 0)

\* C36: from the provider's disconnect() until its next connect() (the provider
\* holds no transport) the entity table is empty
C36_TableEmptyAfterDisconnect ==
  api = "null" => entities = <<>>

\* C37: no transport instance that a connect() of the provider replaced can
\* still notify the provider: the replaced instance has been disconnected
C37_EarlierDisconnected ==
  earlierApi = "null"

\* C38: for the pull transport, the state last delivered to a connection-state
\* observer is Connected exactly when getConnectionState() returns Connected
C38_ObserverAgreesWithQuery ==
  (connectionCallbacks > 0 /\ restNotified # "none") =>
     ((restNotified = CONNECTED) <=> (getConnectionState(RestThis) = CONNECTED))

\* C39: when activateScene sends the turn_on of a scene that already has a
\* record, the records of the other scenes are as before and the scene's one
\* record holds the snapshot captured by this activation; a deactivateScene
\* restores, entry by entry, the snapshot of the record it finds
C39_ReactivationReplaces ==
  [][/\ ((ActivateStart \/ FetchReturn) /\ SceneId \in DOMAIN activeScenes
           /\ task'.kind = "activate" /\ task'.pc = "invoke") =>
          /\ DOMAIN activeScenes' = DOMAIN activeScenes
          /\ \A x \in DOMAIN activeScenes \ {SceneId} : activeScenes'[x] = activeScenes[x]
          /\ activeScenes'[SceneId] =
               [sceneId |-> SceneId,
                originalStates |->
                  captureEntityStates(capturedFrom',
                                      getSceneEntities(getEntity(capturedFrom', SceneId)))]
     /\ (DeactivateStart /\ SceneId \in DOMAIN activeScenes) =>
          /\ SceneId \notin DOMAIN activeScenes'
          /\ \A k \in 1..Len(issued') :
               issued'[k].of = activeScenes[SceneId].originalStates[k]]_vars

\* the second of two activations in a row has sent its turn_on, and the scene's
\* record holds what it captured
C39_Witness ==
  /\ sceneInvokes = 2 /\ task.kind = "activate" /\ task.pc = "invoke" /\ task.reply = "none"
  /\ overlapped = NoTask
  /\ isSceneActive(activeScenes, SceneId)
  /\ activeScenes[SceneId].originalStates =
       captureEntityStates(capturedFrom, getSceneEntities(getEntity(capturedFrom, SceneId)))
  /\ Len(activeScenes[SceneId].originalStates) = 2

\* C40: the snapshot of an activation has one entry per member of the scene, in
\* the members' order; a member the table lacked at the capture has state
\* 'unknown' and no attributes, and deactivateScene issues no call for it
C40_AbsentMemberUntouched ==
  /\ (capturedFrom # <<>> /\ SceneId \in DOMAIN activeScenes) =>
       LET snapshot == activeScenes[SceneId].originalStates IN
       /\ Len(snapshot) = Len(CapturedMembers)
       /\ \A k \in 1..Len(snapshot) :
            /\ snapshot[k].entityId = CapturedMembers[k]
            /\ getEntity(capturedFrom, CapturedMembers[k]) = Null =>
                 (snapshot[k].state = "unknown" /\ snapshot[k].attributes = NoAttributes)
  /\ \A k \in 1..Len(issued) :
       issued[k].of.state = "unknown" => issued[k].call = Skip

====
